---- MODULE Spec2Model ----
(***************************************************************************)
(* A model of the account-lifecycle engine of KiroProxy: the account       *)
(* selector (core/account_selector.py), account availability               *)
(* (core/account.py), session stickiness (core/state.py), the refresh      *)
(* manager (core/refresh_manager.py) and the quota scheduler               *)
(* (core/quota_scheduler.py).                                              *)
(*                                                                         *)
(* The specifications share the variables:                                 *)
(*   Spec          the selector over a three-account list                  *)
(*   SpecDispatch  account acquisition under every cause of unavailability *)
(*   SpecSession   session stickiness over time                            *)
(*   SpecRefresh   batch refresh passes over three accounts, the semaphore *)
(*   SpecLock      the refresh lock shared by batch passes and lock clients*)
(*   SpecRetry     retry_with_backoff: attempts and waits                  *)
(*   SpecAuth      execute_with_auth_retry: refreshes and re-runs          *)
(*   SpecTimer     the auto-refresh timer under overlapping start and stop *)
(*   SpecToken     should_refresh_token over windows and expiry times      *)
(*   SpecScheduler the quota scheduler's passes and the saved account list *)
(*   SpecMark      marking an account after an upstream 429                *)
(*   SpecPriority  the admin mutations of the priority list                *)
(*   SpecHistory   the history manager: compression and length errors      *)
(*   SpecQuota     CachedQuota: the balance status of a snapshot            *)
(*   SpecCache     QuotaCache: set, get, save to and load from its file     *)
(*   SpecSave      the saves of the persisted files, interrupted anywhere   *)
(*   SpecConfig    RefreshManager.update_config                             *)
(*   SpecRoundRobin    round-robin selection over runs of select calls      *)
(*   SpecActive        the active window and the rounds of _update_loop     *)
(*   SpecSingle        the refresh of one account's token                   *)
(*   SpecAuto          the rounds of the auto-refresh loop                  *)
(*   SpecRecover       the loop and default batch passes, run fairly         *)
(*   SpecPriorityLists the priority list under any list of ids              *)
(*   SpecStartStop     start and stop of the quota scheduler, interleaved   *)
(***************************************************************************)
EXTENDS Integers, Sequences, FiniteSets, TLC

\* ------------------------------------------------------------------ bounds
\* Largest balance a usage fetch reports.
MaxBalance == 2
\* Cap on the total number of requests counted over all accounts.
MaxRequests == 1
\* Longest priority list an admin call supplies.
MaxPriorityLen == 2
\* Number of clock steps (of QuotaCooldownSeconds each) a run of SpecDispatch takes.
MaxDispatchTicks == 1
\* Number of clock steps (of QuotaCooldownSeconds each) a run of SpecSession takes.
MaxSessionTicks == 2
\* Largest configured concurrency of a batch refresh.
MaxConcurrency == 2
\* Largest configured max_retries of a batch refresh.
MaxRetries == 1
\* Largest max_retries a retry_with_backoff call is given.
MaxRetryArg == 2
\* Largest retry_base_delay, in seconds.
MaxBaseDelay == 2
\* Cap on the number of auto-refresh timer tasks created in a run.
MaxTimerTasks == 3
\* The grid, in seconds, on which refresh windows and expiry times are drawn.
TokenStep == 15
\* Largest token_refresh_before_expiry, in grid steps.
MaxWindowSteps == 8
\* Latest expiry of a token after the current time, in grid steps.
MaxExpirySteps == 9
\* Cap on the error count of an account.
MaxErrors == 2
\* Number of clock steps (of QuotaCooldownSeconds each) a run of SpecMark takes.
MaxMarkTicks == 2
\* Largest position an add_priority_account call is given.
MaxPosition == 1
\* Longest history handed to the history manager, in entries.
MaxHistoryLen == 9
\* Serialized length of a short user entry, in characters.
SmallChars == 1000
\* Serialized length of a user entry that alone exceeds the compression threshold.
HugeChars == 130000
\* Serialized length of an entry of a conversation with tool calls, its tool
\* results left out.
TurnChars == 20000
\* Serialized length of one toolResults entry.
ResultChars == 100
\* Largest retry_count a length-error handler is given.
MaxRetryCount == 4
\* The grid on which usage limits are drawn.
LimitStep == 5
\* Largest usage limit of a snapshot, in grid steps.
MaxLimitSteps == 2
\* Largest balance of a snapshot.
MaxQuotaBalance == 3
\* Cap on the number of saves of one file in a run.
MaxSaves == 2
\* Largest number of fields an update_config call names.
MaxKwargs == 2
\* The number of select calls kept on record.
MaxRun == 3
\* How long the activity specification runs, in half windows.
MaxActiveTicks == 4
\* The lifetime of a refreshed token, in refresh windows.
TokenLifetimeWindows == 2
\* Cap on the number of successful refreshes of one account.
MaxTokens == 2
\* How long the single-refresh specification runs, in refresh windows.
MaxSingleWindows == 3
\* The number of rounds of the auto-refresh loop.
MaxRounds == 2
\* Longest list of ids a caller hands to set_priority_accounts or reorder_priority.
MaxRequestLen == 3
\* The number of update-loop tasks the quota scheduler creates in a run.
MaxLoopTasks == 3

\* --------------------------------------------------------------- constants
ACTIVE == "active"
COOLDOWN == "cooldown"
UNHEALTHY == "unhealthy"
DISABLED == "disabled"
SUSPENDED == "suspended"

LOWEST_BALANCE == "lowest_balance"
ROUND_ROBIN == "round_robin"
LEAST_REQUESTS == "least_requests"

\* The session time-to-live of get_available_account, in seconds.
SESSION_TTL == 60
\* RateLimiter.quotaCooldownSeconds (its default), in seconds.
QuotaCooldownSeconds == 30

\* The ids of the account list of Spec, in list order.
AccountIds == <<"a", "b", "c">>
\* The ids of the account list of SpecDispatch, in list order.
DispatchIds == <<"a", "b">>
\* The session ids a request may carry.
SessionIds == {"s1"}
\* The tasks that call refresh_all_with_token.
Callers == {"p1", "p2"}
\* The clients that take the refresh lock by acquire_refresh_lock.
Clients == {"d1", "d2"}
\* Every id an operation may name.
IdSet == {"a", "b", "c"}
\* The value standing for Python None where an account (id) is expected.
NoAccount == "-"
\* The value standing for Python None where a session id is expected.
NoSession == "-"

VARIABLES
    accounts,            \* ProxyState.accounts: sequence of Account records
    quota_cache,         \* QuotaCache._cache: id -> snapshot (present = FALSE: no entry)
    exceeded_records,    \* quota_manager.exceeded_records: id -> cooldown record
    now,                 \* time.time()
    priority_accounts,   \* AccountSelector._priority_accounts
    strategy,            \* AccountSelector._strategy
    round_robin_index,   \* AccountSelector._round_robin_index
    session_locks,       \* ProxyState.session_locks: session id -> account id
    session_timestamps,  \* ProxyState.session_timestamps: session id -> time
    last,                \* the last call made and what it returned
    config,              \* RefreshManager._config (SpecConfig: all five fields)
    async_lock,          \* RefreshManager._async_lock.locked()
    is_refreshing,       \* RefreshManager._is_refreshing
    progress,            \* RefreshManager._progress (present = FALSE: None)
    pc,                  \* where each refresh_all_with_token call stands
    pass,                \* each running call's refresh_one tasks and its semaphore
    returned,            \* the call that has just ended and what it returned
    direct,              \* the clients that hold the lock by acquire_refresh_lock
    retry,               \* the retry_with_backoff call under way
    auth,                \* the execute_with_auth_retry call under way
    timer,               \* the auto-refresh timer and the start/stop calls under way
    tok,                 \* a should_refresh_token call: its inputs and its answer
    sched,               \* the quota scheduler's passes and the saved accounts file
    mark,                \* the rate limiter's switch and the accounts' error counts
    priority_file,       \* the priority config file on disk (exists = FALSE: no file)
    prio_call,                \* the priority-list mutation just called and what it returned
    hist,                \* the history manager: the call and what it returned
    cache_file,          \* the quota cache file on disk (exists = FALSE: no file)
    cache_call,          \* the last call on the quota cache or on CachedQuota
    disk,                \* the files a save writes: target, temp file and the position of the save
    cfg_call,            \* the last update_config call and how it ended
    rr,                  \* the last select calls: the available ids, the index before and the id returned
    activity,            \* QuotaScheduler._active_accounts and the round of _update_loop under way or just ended
    creds,               \* the token files, the cached credentials and the last token refresh call
    auto,                \* the round of _auto_refresh_loop under way
    qtask                \* the quota scheduler: _running, _task, its start and stop calls and its loop tasks

\* The state of the refresh manager.
refresh_vars == <<config, async_lock, is_refreshing, progress, pc, pass, returned, direct>>

\* The state of the refresh manager's helpers and of the quota scheduler.
service_vars == <<retry, auth, timer, tok, sched, mark, priority_file, prio_call, hist, cache_file, cache_call, disk, cfg_call, rr, activity, creds, auto, qtask>>

\* The state of the selector, the cache, the cooldown table and the sessions.
selector_vars == <<quota_cache, exceeded_records, now, priority_accounts, strategy,
                   round_robin_index, session_locks, session_timestamps>>

vars == <<accounts, quota_cache, exceeded_records, now, priority_accounts,
          strategy, round_robin_index, session_locks, session_timestamps, last,
          config, async_lock, is_refreshing, progress, pc, pass, returned, direct,
          retry, auth, timer, tok, sched, mark,
          priority_file, prio_call,
          hist,
          cache_file, cache_call, disk, cfg_call,
          rr,
          activity,
          creds, auto, qtask>>

\* ----------------------------------------------------------- quota snapshots
\* QuotaCache.get(id) of an id with no entry.
NoQuota == [present |-> FALSE, error |-> FALSE, balance |-> 0, is_exhausted |-> FALSE]

\* CachedQuota.from_usage_info: an error-free snapshot; __post_init__ and
\* _update_balance_status set is_exhausted iff balance <= 0.
from_usage_info(balance) ==
    [present |-> TRUE, error |-> FALSE, balance |-> balance, is_exhausted |-> balance <= 0]

\* CachedQuota.from_error: error set, balance fields zero, status not recomputed.
from_error ==
    [present |-> TRUE, error |-> TRUE, balance |-> 0, is_exhausted |-> FALSE]

\* ------------------------------------------------------------ quota manager
NoRecord == [present |-> FALSE, cooldown_until |-> 0]

\* QuotaManager.IsAvailable: no record, or now >= cooldownUntil.
quota_manager_is_available(id) ==
    \/ ~exceeded_records[id].present
    \/ now >= exceeded_records[id].cooldown_until

\* QuotaManager.CleanupExpired: drop every record whose cooldown has elapsed.
cleanup_expired ==
    [id \in IdSet |->
        IF exceeded_records[id].present /\ now > exceeded_records[id].cooldown_until
        THEN NoRecord ELSE exceeded_records[id]]

\* ------------------------------------------------------------------ account
Account(id) == [id |-> id, enabled |-> TRUE, status |-> ACTIVE, request_count |-> 0]

\* is_available without the exhausted-quota test.
is_available_ignoring_quota(acc) ==
    /\ acc.enabled
    /\ acc.status \notin {DISABLED, UNHEALTHY, SUSPENDED}
    /\ quota_manager_is_available(acc.id)

is_available(acc) ==
    /\ acc.enabled
    /\ acc.status \notin {DISABLED, UNHEALTHY, SUSPENDED}
    /\ quota_manager_is_available(acc.id)
    /\ ~(quota_cache[acc.id].present /\ quota_cache[acc.id].is_exhausted)

\* ----------------------------------------------------------------- selector
\* The sort key of _select_lowest_balance: (balance, request_count), the
\* balance being float('inf') for a missing or error snapshot.
\* The sort key without the has_error test: an error snapshot counts with its
\* zero balance.
get_balance_and_requests_no_error_test(acc) ==
    LET quota == quota_cache[acc.id] IN
    [inf |-> ~quota.present,
     balance |-> IF quota.present THEN quota.balance ELSE 0,
     requests |-> acc.request_count]

get_balance_and_requests(acc) ==
    LET quota == quota_cache[acc.id] IN
    [inf |-> ~(quota.present /\ ~quota.error),
     balance |-> IF quota.present /\ ~quota.error THEN quota.balance ELSE 0,
     requests |-> acc.request_count]

\* Python's tuple order on two such keys (inf = inf, finite < inf).
key_less(k1, k2) ==
    LET bal_less == \/ ~k1.inf /\ k2.inf
                    \/ ~k1.inf /\ ~k2.inf /\ k1.balance < k2.balance
        bal_eq == \/ k1.inf /\ k2.inf
                  \/ ~k1.inf /\ ~k2.inf /\ k1.balance = k2.balance
    IN bal_less \/ (bal_eq /\ k1.requests < k2.requests)

\* Python's min(seq, key=...): the first element whose key no other undercuts.
RECURSIVE min_balance_from(_, _, _)
min_balance_from(seq, i, best) ==
    IF i > Len(seq) THEN best
    ELSE IF key_less(get_balance_and_requests(seq[i]), get_balance_and_requests(best))
         THEN min_balance_from(seq, i + 1, seq[i])
         ELSE min_balance_from(seq, i + 1, best)

RECURSIVE min_requests_from(_, _, _)
min_requests_from(seq, i, best) ==
    IF i > Len(seq) THEN best
    ELSE IF seq[i].request_count < best.request_count
         THEN min_requests_from(seq, i + 1, seq[i])
         ELSE min_requests_from(seq, i + 1, best)

select_lowest_balance(accs) ==
    LET available == SelectSeq(accs, is_available) IN
    IF available = <<>> THEN NoAccount
    ELSE min_balance_from(available, 2, available[1]).id

select_least_requests(accs) ==
    LET available == SelectSeq(accs, is_available) IN
    IF available = <<>> THEN NoAccount
    ELSE min_requests_from(available, 2, available[1]).id

\* _select_round_robin without the increment of the index.
select_round_robin_stuck(accs) ==
    LET available == SelectSeq(accs, is_available) IN
    IF available = <<>> THEN [ret |-> NoAccount, index |-> round_robin_index]
    ELSE LET idx == round_robin_index % Len(available) IN
         [ret |-> available[idx + 1].id, index |-> idx]

\* _select_round_robin: the chosen id and the index it leaves behind.
select_round_robin(accs) ==
    LET available == SelectSeq(accs, is_available) IN
    IF available = <<>> THEN [ret |-> NoAccount, index |-> round_robin_index]
    ELSE LET idx == round_robin_index % Len(available) IN
         [ret |-> available[idx + 1].id, index |-> idx + 1]

\* The inner loop of select: the first account of the list with this id that
\* is available.
\* The inner loop without the is_available test.
RECURSIVE find_priority_account_any(_, _, _)
find_priority_account_any(accs, priority_id, j) ==
    IF j > Len(accs) THEN NoAccount
    ELSE IF accs[j].id = priority_id THEN accs[j].id
         ELSE find_priority_account_any(accs, priority_id, j + 1)

RECURSIVE find_priority_account(_, _, _)
find_priority_account(accs, priority_id, j) ==
    IF j > Len(accs) THEN NoAccount
    ELSE IF accs[j].id = priority_id /\ is_available(accs[j]) THEN accs[j].id
         ELSE find_priority_account(accs, priority_id, j + 1)

\* The outer loop of select over the priority list.
RECURSIVE walk_priority(_, _)
walk_priority(accs, k) ==
    IF k > Len(priority_accounts) THEN NoAccount
    ELSE LET found == find_priority_account(accs, priority_accounts[k], 1) IN
         IF found # NoAccount THEN found ELSE walk_priority(accs, k + 1)

\* AccountSelector.select: the chosen id (NoAccount for None) and the
\* round-robin index after the call.
select(available_accounts) ==
    IF available_accounts = <<>>
    THEN [ret |-> NoAccount, index |-> round_robin_index]
    ELSE LET prio == walk_priority(available_accounts, 1) IN
         IF prio # NoAccount
         THEN [ret |-> prio, index |-> round_robin_index]
         ELSE IF strategy = LOWEST_BALANCE
              THEN [ret |-> select_lowest_balance(available_accounts),
                    index |-> round_robin_index]
              ELSE IF strategy = ROUND_ROBIN
                   THEN select_round_robin(available_accounts)
                   ELSE [ret |-> select_least_requests(available_accounts),
                         index |-> round_robin_index]

\* ------------------------------------------------------------- call records
NoCall == [op |-> "none", ret |-> NoAccount, sid |-> NoSession, exclude |-> NoAccount]
Call(op, ret, sid, exclude) == [op |-> op, ret |-> ret, sid |-> sid, exclude |-> exclude]

\* The index of an id in the account list (0 when absent).
IndexOf(id) ==
    LET S == {i \in 1..Len(accounts) : accounts[i].id = id} IN
    IF S = {} THEN 0 ELSE CHOOSE i \in S : \A j \in S : i <= j

RECURSIVE SumRequests(_)
SumRequests(i) ==
    IF i > Len(accounts) THEN 0 ELSE accounts[i].request_count + SumRequests(i + 1)

\* Every sequence over S of length at most n.
SeqsUpTo(S, n) == UNION {[1..k -> S] : k \in 0..n}

\* ------------------------------------------------------------ refresh state
\* RefreshManager.get_progress() before any pass: None.
NoProgress ==
    [present |-> FALSE, total |-> 0, completed |-> 0, success |-> 0, failed |-> 0,
     current_account |-> NoAccount, status |-> "none", message |-> "none"]

\* A call that has no pass: no task, no semaphore.
NoPass == [tasks |-> <<>>, sem |-> 0]

\* Nothing has just returned.
NoReturn ==
    [kind |-> "none", caller |-> "-", ok |-> FALSE, value |-> NoProgress, tasks |-> <<>>]

\* refresh_all_with_token of caller has just ended: kind is "returned" after a
\* pass, "rejected" when the lock was refused, "cancelled" when the task was
\* cancelled; value is the progress handed back, tasks the pass's tasks.
Return(kind, caller, value, tasks) ==
    [kind |-> kind, caller |-> caller, ok |-> kind = "returned", value |-> value,
     tasks |-> tasks]

\* acquire_refresh_lock of client has just answered ok.
Answer(client, ok) ==
    [kind |-> "acquire", caller |-> client, ok |-> ok, value |-> NoProgress,
     tasks |-> <<>>]

\* RefreshManager.__init__ with a configuration that passes validate().
RefreshInit ==
    /\ config \in [concurrency : 1..MaxConcurrency, max_retries : 0..MaxRetries]
    /\ async_lock = FALSE
    /\ is_refreshing = FALSE
    /\ progress = NoProgress
    /\ pc = [c \in Callers |-> "idle"]
    /\ pass = [c \in Callers |-> NoPass]
    /\ returned = NoReturn
    /\ direct = [d \in Clients |-> FALSE]

\* The refresh manager as the selector and dispatch specifications hold it.
RefreshIdle ==
    /\ config = [concurrency |-> 1, max_retries |-> 0]
    /\ async_lock = FALSE
    /\ is_refreshing = FALSE
    /\ progress = NoProgress
    /\ pc = [c \in Callers |-> "idle"]
    /\ pass = [c \in Callers |-> NoPass]
    /\ returned = NoReturn
    /\ direct = [d \in Clients |-> FALSE]

\* ------------------------------------------------------------ service state
\* A datum an operation hands back or raises with: a str or not, and its
\* text as a sequence of words.
Datum(is_str, words) == [is_str |-> is_str, words |-> words]

\* None.
NoDatum == Datum(FALSE, <<>>)

\* No retry_with_backoff call is under way.
NoRetry ==
    [st |-> "idle", retries |-> 0, base_delay |-> 0, attempt |-> 0, calls |-> 0,
     outcomes |-> <<>>, waits |-> <<>>, ok |-> FALSE, value |-> NoDatum]

\* No execute_with_auth_retry call is under way.
NoAuth ==
    [st |-> "idle", account |-> 0, events |-> <<>>, ok |-> FALSE, value |-> NoDatum]

\* The tasks that call start_auto_refresh and stop_auto_refresh.
TimerCallers == {"t1", "t2"}

\* A start/stop call that is not under way.
NoTimerCall == [st |-> "idle", awaits |-> 0]

\* RefreshManager.__init__: _auto_refresh_running False, _auto_refresh_task
\* None (0); no timer task alive or cancelled, none created, no call made.
NoTimer ==
    [running |-> FALSE, task |-> 0, alive |-> {}, cancelled |-> {}, created |-> 0,
     calls |-> [c \in TimerCallers |-> NoTimerCall], last |-> "none"]

\* No should_refresh_token call has been made.
NoTok == [window |-> 0, has_creds |-> FALSE, expires_at |-> 0, applied |-> FALSE,
          result |-> FALSE]

\* The passes of the quota scheduler: refresh_all (at start and on demand),
\* refresh_account, and one round of _update_loop.
PassKinds == {"all", "one", "tick"}

\* Who last disabled an account: nobody, the admin toggle, or the scheduler.
Origins == {"none", "admin", "scheduler"}

\* No step of the scheduler has just been taken.
NoSchedStep == [op |-> "none", kind |-> "none"]

\* The accounts_data list that ProxyState._save_accounts writes: one entry
\* per account, in list order (the name and the token path are constant).
accounts_data(accs) ==
    [i \in 1..Len(accs) |-> [id |-> accs[i].id, enabled |-> accs[i].enabled]]

\* The scheduler with no pass under way and the saved accounts file as the
\* account list was loaded from it.
NoSched(accs) ==
    [stored |-> accounts_data(accs),
     origin |-> [id \in IdSet |-> "none"],
     running |-> [k \in PassKinds |-> FALSE],
     pending |-> [k \in PassKinds |-> {}],
     success |-> FALSE,
     step |-> NoSchedStep]

\* No Account.mark_quota_exceeded call has been made.
NoMarkCall == [i |-> 0]

\* The rate limiter as configured (enabled or not), no error counted, no
\* mark_quota_exceeded call made (calls: their number modulo 2).
NoMark(enabled) ==
    [enabled |-> enabled, error_count |-> [id \in IdSet |-> 0], calls |-> 0,
     call |-> NoMarkCall]

\* No priority config file on disk.
NoFile == [exists |-> FALSE]

\* No priority-list mutation has just been called.
NoPriorityCall == [op |-> "none"]

\* No history-manager call has been made.
NoHist == [op |-> "none"]

\* No call on the quota cache has been made.
NoCacheCall == [op |-> "none"]

\* No save is under way and no file is looked at.
NoDisk == [op |-> "none"]

\* No update_config call has been made.
NoConfigCall == [op |-> "none"]

\* No select call has been recorded.
NoRun == <<>>

\* The activity table of a scheduler that is not looked at.
NoActivity == [op |-> "none"]

\* The token files and cached credentials of accounts that are not looked at.
NoCredentials == [op |-> "none"]

\* The auto-refresh loop of a manager whose timer is not looked at.
NoAuto == [op |-> "none"]

\* The start and stop calls of a quota scheduler that is not looked at.
NoUpdateTask == [op |-> "none"]

\* The helpers and the scheduler at rest, rate limiting enabled.
ServiceIdle ==
    /\ retry = NoRetry
    /\ auth = NoAuth
    /\ timer = NoTimer
    /\ tok = NoTok
    /\ sched = NoSched(accounts)
    /\ mark = NoMark(TRUE)
    /\ priority_file = NoFile
    /\ prio_call = NoPriorityCall
    /\ hist = NoHist
    /\ cache_file = NoFile
    /\ cache_call = NoCacheCall
    /\ disk = NoDisk
    /\ cfg_call = NoConfigCall
    /\ rr = NoRun
    /\ activity = NoActivity
    /\ creds = NoCredentials
    /\ auto = NoAuto
    /\ qtask = NoUpdateTask

\* ------------------------------------------------------------ selector steps
\* A usage fetch stored by the batch refresh's quota function.
QuotaUpdate(id, balance) ==
    /\ quota_cache' = [quota_cache EXCEPT ![id] = from_usage_info(balance)]
    /\ last' = NoCall
    /\ UNCHANGED refresh_vars
    /\ UNCHANGED service_vars
    /\ UNCHANGED <<accounts, exceeded_records, now, priority_accounts, strategy,
                   round_robin_index, session_locks, session_timestamps>>

\* A failed usage fetch stored as an error snapshot.
QuotaError(id) ==
    /\ quota_cache' = [quota_cache EXCEPT ![id] = from_error]
    /\ last' = NoCall
    /\ UNCHANGED refresh_vars
    /\ UNCHANGED service_vars
    /\ UNCHANGED <<accounts, exceeded_records, now, priority_accounts, strategy,
                   round_robin_index, session_locks, session_timestamps>>

\* A forwarded request counted on its account.
CountRequest(i) ==
    /\ SumRequests(1) < MaxRequests
    /\ accounts' = [accounts EXCEPT ![i].request_count = @ + 1]
    /\ last' = NoCall
    /\ UNCHANGED refresh_vars
    /\ UNCHANGED service_vars
    /\ UNCHANGED <<quota_cache, exceeded_records, now, priority_accounts, strategy,
                   round_robin_index, session_locks, session_timestamps>>

\* AccountSelector._save_priority_config: the file it writes (its version
\* field is constant).
save_priority_config(ids, s) ==
    [exists |-> TRUE, priority_accounts |-> ids, strategy |-> s]

\* AccountSelector.set_priority_accounts(account_ids, valid_account_ids),
\* when it accepts the list: the list is replaced and saved.
set_priority_accounts(account_ids, valid_account_ids) ==
    /\ ~(valid_account_ids # {} /\ \E k \in 1..Len(account_ids) :
            account_ids[k] \notin valid_account_ids)
    /\ priority_accounts' = account_ids
    /\ priority_file' = save_priority_config(account_ids, strategy)
    /\ last' = NoCall
    /\ UNCHANGED refresh_vars
    /\ UNCHANGED <<retry, auth, timer, tok, sched, mark, prio_call, hist, cache_file, cache_call, disk, cfg_call, rr, activity, creds, auto, qtask>>
    /\ UNCHANGED <<accounts, quota_cache, exceeded_records, now, strategy,
                   round_robin_index, session_locks, session_timestamps>>

\* ProxyState.get_valid_account_ids.
get_valid_account_ids == {accounts[i].id : i \in {j \in 1..Len(accounts) : accounts[j].enabled}}

\* The priority lists the admin calls of Spec supply: no id twice.
PriorityInputs ==
    {ids \in SeqsUpTo(IdSet, MaxPriorityLen) :
        \A j, k \in 1..Len(ids) : ids[j] = ids[k] => j = k}

SetPriority ==
    \E ids \in PriorityInputs :
        set_priority_accounts(ids, get_valid_account_ids)

\* The strategy setter.
SetStrategy(s) ==
    /\ strategy # s
    /\ strategy' = s
    /\ priority_file' = save_priority_config(priority_accounts, s)
    /\ last' = NoCall
    /\ UNCHANGED refresh_vars
    /\ UNCHANGED <<retry, auth, timer, tok, sched, mark, prio_call, hist, cache_file, cache_call, disk, cfg_call, rr, activity, creds, auto, qtask>>
    /\ UNCHANGED <<accounts, quota_cache, exceeded_records, now, priority_accounts,
                   round_robin_index, session_locks, session_timestamps>>

\* A call of AccountSelector.select on the account list.
Select ==
    LET r == select(accounts) IN
    /\ round_robin_index' = r.index
    /\ last' = Call("select", r.ret, NoSession, NoAccount)
    /\ UNCHANGED refresh_vars
    /\ UNCHANGED service_vars
    /\ UNCHANGED <<accounts, quota_cache, exceeded_records, now, priority_accounts,
                   strategy, session_locks, session_timestamps>>

\* ------------------------------------------------------------ selector claims
\* The accounts of the list that are available, as a set of indices.
AvailableIdx == {i \in 1..Len(accounts) : is_available(accounts[i])}

\* The positions of the priority list whose id is an available account of the list.
AvailablePriorityPos ==
    {k \in 1..Len(priority_accounts) :
        \E i \in AvailableIdx : accounts[i].id = priority_accounts[k]}

\* The snapshot of an id gives a balance (an entry without error).
HasBalance(id) == quota_cache[id].present /\ ~quota_cache[id].error

\* ret is an available account that no available account undercuts in
\* (effective balance, requestCount), a missing balance counting as +infinity.
MinimisesBalanceThenRequests(ret) ==
    /\ \E i \in AvailableIdx : accounts[i].id = ret
    /\ \A i \in AvailableIdx :
        LET o == accounts[i]
            r == accounts[IndexOf(ret)]
        IN /\ HasBalance(o.id) /\ HasBalance(ret)
                => quota_cache[ret].balance <= quota_cache[o.id].balance
           /\ HasBalance(o.id) => HasBalance(ret)
           /\ (\/ ~HasBalance(o.id) /\ ~HasBalance(ret)
               \/ /\ HasBalance(o.id) /\ HasBalance(ret)
                  /\ quota_cache[ret].balance = quota_cache[o.id].balance)
                => r.request_count <= o.request_count

MinimisesRequests(ret) ==
    /\ \E i \in AvailableIdx : accounts[i].id = ret
    /\ \A i \in AvailableIdx : accounts[IndexOf(ret)].request_count <= accounts[i].request_count

\* The available accounts in list order.
AvailableSeq == SelectSeq(accounts, is_available)

\* What the configured strategy must return over the available accounts.
StrategyChoiceOk(ret) ==
    IF AvailableIdx = {} THEN ret = NoAccount
    ELSE /\ strategy = LOWEST_BALANCE => MinimisesBalanceThenRequests(ret)
         /\ strategy = LEAST_REQUESTS => MinimisesRequests(ret)
         /\ strategy = ROUND_ROBIN =>
                /\ round_robin_index \in 1..Len(AvailableSeq)
                /\ ret = AvailableSeq[round_robin_index].id

\* C1: with a non-empty priority list, select returns the account of the first
\* priority id (in priority-list order) that is in the account list and
\* available, when there is one; when no priority account is available it
\* returns what the configured strategy picks over the available accounts.
C1_PriorityThenStrategy ==
    (last.op = "select" /\ priority_accounts # <<>>) =>
        IF AvailablePriorityPos # {}
        THEN \E k \in AvailablePriorityPos :
                /\ \A j \in AvailablePriorityPos : k <= j
                /\ last.ret = priority_accounts[k]
        ELSE StrategyChoiceOk(last.ret)

\* A select that skipped an unavailable first priority id and returned the
\* second one, which the strategy alone would not have picked.
C1_Witness ==
    /\ last.op = "select"
    /\ Len(priority_accounts) = 2
    /\ 1 \notin AvailablePriorityPos
    /\ last.ret = priority_accounts[2]
    /\ strategy = LOWEST_BALANCE
    /\ ~MinimisesBalanceThenRequests(last.ret)

\* C2: with an empty priority list and strategy lowestBalance, select returns
\* an available account minimising (effective balance, requestCount)
\* lexicographically, the effective balance being +infinity without a cache
\* entry or with an error snapshot; it returns none when none is available.
C2_LowestBalance ==
    (last.op = "select" /\ priority_accounts = <<>> /\ strategy = LOWEST_BALANCE) =>
        IF AvailableIdx = {} THEN last.ret = NoAccount
        ELSE MinimisesBalanceThenRequests(last.ret)

\* A select that preferred a smaller balance with more requests over a larger
\* balance with fewer, while a third account had no usable balance.
C2_Witness ==
    /\ last.op = "select" /\ priority_accounts = <<>> /\ strategy = LOWEST_BALANCE
    /\ last.ret # NoAccount
    /\ HasBalance(last.ret)
    /\ \E i \in AvailableIdx :
          /\ HasBalance(accounts[i].id)
          /\ quota_cache[accounts[i].id].balance > quota_cache[last.ret].balance
          /\ accounts[i].request_count < accounts[IndexOf(last.ret)].request_count
    /\ \E i \in AvailableIdx : ~HasBalance(accounts[i].id)

Init ==
    /\ accounts = [i \in 1..Len(AccountIds) |-> Account(AccountIds[i])]
    /\ quota_cache = [id \in IdSet |-> NoQuota]
    /\ exceeded_records = [id \in IdSet |-> NoRecord]
    /\ now = 0
    /\ priority_accounts = <<>>
    /\ strategy = LOWEST_BALANCE
    /\ round_robin_index = 0
    /\ session_locks = [sid \in SessionIds |-> NoAccount]
    /\ session_timestamps = [sid \in SessionIds |-> 0]
    /\ last = NoCall
    /\ RefreshIdle
    /\ ServiceIdle

Next ==
    \/ \E i \in 1..Len(accounts), b \in {0, 1, MaxBalance} : QuotaUpdate(accounts[i].id, b)
    \/ \E i \in 1..Len(accounts) : QuotaError(accounts[i].id)
    \/ \E i \in 1..Len(accounts) : CountRequest(i)
    \/ SetPriority
    \/ \E s \in {LOWEST_BALANCE, ROUND_ROBIN, LEAST_REQUESTS} : SetStrategy(s)
    \/ Select

Spec == Init /\ [][Next]_vars

\* ------------------------------------------------------------ dispatch steps
\* admin toggle_account: flip enabled and save the account list.  The admin
\* becomes the origin of a disabling; an enabling clears the origin.
ToggleAccount(i) ==
    /\ accounts' = [accounts EXCEPT ![i].enabled = ~@]
    /\ sched' = [sched EXCEPT !.stored = accounts_data(accounts'),
                              !.origin[accounts[i].id] =
                                  IF accounts[i].enabled THEN "admin" ELSE "none",
                              !.step = NoSchedStep]
    /\ last' = NoCall
    /\ UNCHANGED refresh_vars
    /\ UNCHANGED <<retry, auth, timer, tok, mark, priority_file, prio_call, hist, cache_file, cache_call, disk, cfg_call, rr, activity, creds, auto, qtask>>
    /\ UNCHANGED <<quota_cache, exceeded_records, now, priority_accounts, strategy,
                   round_robin_index, session_locks, session_timestamps>>

\* Account.refresh_token, by its outcome: success sets the status active,
\* failure sets it unhealthy.
RefreshToken(i, success) ==
    /\ accounts' = [accounts EXCEPT ![i].status = IF success THEN ACTIVE ELSE UNHEALTHY]
    /\ last' = NoCall
    /\ UNCHANGED refresh_vars
    /\ UNCHANGED service_vars
    /\ UNCHANGED <<quota_cache, exceeded_records, now, priority_accounts, strategy,
                   round_robin_index, session_locks, session_timestamps>>

\* A status set from outside the core (disabled, suspended).
SetStatus(i, s) ==
    /\ accounts[i].status # s
    /\ accounts' = [accounts EXCEPT ![i].status = s]
    /\ last' = NoCall
    /\ UNCHANGED refresh_vars
    /\ UNCHANGED service_vars
    /\ UNCHANGED <<quota_cache, exceeded_records, now, priority_accounts, strategy,
                   round_robin_index, session_locks, session_timestamps>>

\* QuotaManager.MarkExceeded: insert or overwrite the record.
mark_exceeded(id, cooldown_seconds) ==
    [exceeded_records EXCEPT ![id] =
        [present |-> TRUE, cooldown_until |-> now + cooldown_seconds]]

\* Account.mark_quota_exceeded with rate limiting enabled: a cooldown record
\* and status cooldown.  The error counter, which the selector and the
\* dispatch never read, is counted by AccountMarkQuotaExceeded.
MarkQuotaExceeded(i) ==
    /\ mark.enabled
    /\ exceeded_records' = mark_exceeded(accounts[i].id, QuotaCooldownSeconds)
    /\ accounts' = [accounts EXCEPT ![i].status = COOLDOWN]
    /\ last' = NoCall
    /\ UNCHANGED refresh_vars
    /\ UNCHANGED service_vars
    /\ UNCHANGED <<quota_cache, now, priority_accounts, strategy,
                   round_robin_index, session_locks, session_timestamps>>

\* admin restore_account: drop the cooldown record; when there was one, the
\* status becomes active.
RestoreAccount(i) ==
    /\ exceeded_records[accounts[i].id].present
    /\ exceeded_records' = [exceeded_records EXCEPT ![accounts[i].id] = NoRecord]
    /\ accounts' = [accounts EXCEPT ![i].status = ACTIVE]
    /\ last' = NoCall
    /\ UNCHANGED refresh_vars
    /\ UNCHANGED service_vars
    /\ UNCHANGED <<quota_cache, now, priority_accounts, strategy,
                   round_robin_index, session_locks, session_timestamps>>

\* The clock advances.
Tick(max_ticks) ==
    /\ now < max_ticks * QuotaCooldownSeconds
    /\ now' = now + QuotaCooldownSeconds
    /\ last' = NoCall
    /\ UNCHANGED refresh_vars
    /\ UNCHANGED service_vars
    /\ UNCHANGED <<accounts, quota_cache, exceeded_records, priority_accounts, strategy,
                   round_robin_index, session_locks, session_timestamps>>

\* The freshness test with <= for <.
session_fresh_inclusive(ts) == now - ts <= SESSION_TTL

\* The freshness test of a session binding.
session_fresh(ts) == now - ts < SESSION_TTL

\* The sticky lookup of get_available_account: the bound account when the
\* binding exists, is fresh and names an available account of the list.
sticky_account(session_id) ==
    IF session_id # NoSession /\ session_locks[session_id] # NoAccount
       /\ session_fresh(session_timestamps[session_id])
    THEN find_priority_account(accounts, session_locks[session_id], 1)
    ELSE NoAccount

\* ProxyState.get_available_account(session_id).
get_available_account(session_id) ==
    LET sticky == sticky_account(session_id)
        r == select(accounts)
    IN
    /\ exceeded_records' = cleanup_expired
    /\ IF sticky # NoAccount
       THEN /\ session_timestamps' = [session_timestamps EXCEPT ![session_id] = now]
            /\ last' = Call("get_available_account", sticky, session_id, NoAccount)
            /\ UNCHANGED <<session_locks, round_robin_index>>
       ELSE /\ round_robin_index' = r.index
            /\ last' = Call("get_available_account", r.ret, session_id, NoAccount)
            /\ IF r.ret # NoAccount /\ session_id # NoSession
               THEN /\ session_locks' = [session_locks EXCEPT ![session_id] = r.ret]
                    /\ session_timestamps' = [session_timestamps EXCEPT ![session_id] = now]
               ELSE UNCHANGED <<session_locks, session_timestamps>>
    /\ UNCHANGED refresh_vars
    /\ UNCHANGED service_vars
    /\ UNCHANGED <<accounts, quota_cache, now, priority_accounts, strategy>>

\* ProxyState.get_next_available_account(exclude_id): the id, NoAccount for None.
next_available_account(exclude_id) ==
    LET ok(a) == is_available(a) /\ a.id # exclude_id
        available == SelectSeq(accounts, ok)
    IN IF available = <<>> THEN NoAccount
       ELSE min_requests_from(available, 2, available[1]).id

get_next_available_account(exclude_id) ==
    /\ last' = Call("get_next_available_account", next_available_account(exclude_id),
                    NoSession, exclude_id)
    /\ UNCHANGED refresh_vars
    /\ UNCHANGED service_vars
    /\ UNCHANGED <<accounts, quota_cache, exceeded_records, now, priority_accounts,
                   strategy, round_robin_index, session_locks, session_timestamps>>

InitDispatch ==
    /\ accounts = [i \in 1..Len(DispatchIds) |-> Account(DispatchIds[i])]
    /\ quota_cache = [id \in IdSet |-> NoQuota]
    /\ exceeded_records = [id \in IdSet |-> NoRecord]
    /\ now = 0
    /\ priority_accounts = <<>>
    /\ strategy = LOWEST_BALANCE
    /\ round_robin_index = 0
    /\ session_locks = [sid \in SessionIds |-> NoAccount]
    /\ session_timestamps = [sid \in SessionIds |-> 0]
    /\ last = NoCall
    /\ RefreshIdle
    /\ ServiceIdle

NextDispatch ==
    \/ \E i \in 1..Len(accounts) : ToggleAccount(i)
    \/ \E i \in 1..Len(accounts), ok \in BOOLEAN : RefreshToken(i, ok)
    \/ \E i \in 1..Len(accounts), s \in {DISABLED, SUSPENDED} : SetStatus(i, s)
    \/ \E i \in 1..Len(accounts) : MarkQuotaExceeded(i)
    \/ \E i \in 1..Len(accounts) : RestoreAccount(i)
    \/ \E i \in 1..Len(accounts), b \in {0, MaxBalance} : QuotaUpdate(accounts[i].id, b)
    \/ Tick(MaxDispatchTicks)
    \/ \E sid \in SessionIds \cup {NoSession} : get_available_account(sid)
    \/ Select
    \/ \E i \in 1..Len(accounts) : get_next_available_account(accounts[i].id)

SpecDispatch == InitDispatch /\ [][NextDispatch]_vars

\* Sessions over time: the availability of the two accounts changes by admin
\* toggles, cooldown marks and their expiry, and exhausted quota.
NextSession ==
    \/ \E i \in 1..Len(accounts) : ToggleAccount(i)
    \/ \E i \in 1..Len(accounts) : MarkQuotaExceeded(i)
    \/ \E i \in 1..Len(accounts) : RestoreAccount(i)
    \/ \E i \in 1..Len(accounts), b \in {0, MaxBalance} : QuotaUpdate(accounts[i].id, b)
    \/ Tick(MaxSessionTicks)
    \/ \E sid \in SessionIds \cup {NoSession} : get_available_account(sid)

SpecSession == InitDispatch /\ [][NextSession]_vars
\* ------------------------------------------------------------ dispatch claims
\* The availability predicate of the data model: enabled, status not in
\* {disabled, unhealthy, suspended}, no unexpired cooldown record, no
\* exhausted quota snapshot.
AvailabilityPredicate(acc) ==
    /\ acc.enabled = TRUE
    /\ acc.status # DISABLED /\ acc.status # UNHEALTHY /\ acc.status # SUSPENDED
    /\ ~(exceeded_records[acc.id].present /\ now < exceeded_records[acc.id].cooldown_until)
    /\ ~(quota_cache[acc.id].present /\ quota_cache[acc.id].is_exhausted)

ReturnsAccount ==
    /\ last.op \in {"get_available_account", "select", "get_next_available_account"}
    /\ last.ret # NoAccount

\* C3: every account returned by get_available_account, select or
\* get_next_available_account satisfies the availability predicate when it is
\* returned, and select returns none exactly when no account of the list
\* satisfies it.
C3_ReturnedIsAvailable ==
    /\ ReturnsAccount =>
          \E i \in 1..Len(accounts) :
              accounts[i].id = last.ret /\ AvailabilityPredicate(accounts[i])
    /\ last.op = "select" =>
          (last.ret = NoAccount <=>
              ~\E i \in 1..Len(accounts) : AvailabilityPredicate(accounts[i]))

\* get_available_account returned the second account while the first, though
\* enabled and of a passing status, is held back by an unexpired cooldown
\* record or an exhausted snapshot.
C3_Witness ==
    /\ last.op = "get_available_account"
    /\ last.ret = accounts[2].id
    /\ accounts[1].enabled
    /\ exceeded_records[accounts[1].id].present
    /\ now < exceeded_records[accounts[1].id].cooldown_until
    /\ quota_cache[accounts[2].id].present
    /\ accounts[2].status = COOLDOWN

\* The binding of a session is usable: it exists, was touched less than
\* SESSION_TTL ago and names an available account of the list.
BindingUsable(sid) ==
    /\ session_locks[sid] # NoAccount
    /\ now - session_timestamps[sid] < SESSION_TTL
    /\ \E i \in 1..Len(accounts) :
          accounts[i].id = session_locks[sid] /\ AvailabilityPredicate(accounts[i])

\* C4: for a session id, get_available_account returns the bound account
\* whenever the binding is usable, whatever the selector would choose, and
\* touches the binding; otherwise it returns the selector's choice and, when
\* that is an account, rebinds the session to it with the current time.
C4_SessionSticky ==
    [][\A sid \in SessionIds :
          (last'.op = "get_available_account" /\ last'.sid = sid) =>
             IF BindingUsable(sid)
             THEN /\ last'.ret = session_locks[sid]
                  /\ session_locks'[sid] = session_locks[sid]
                  /\ session_timestamps'[sid] = now
             ELSE /\ last'.ret = select(accounts).ret
                  /\ last'.ret # NoAccount =>
                        /\ session_locks'[sid] = last'.ret
                        /\ session_timestamps'[sid] = now
                  /\ last'.ret = NoAccount =>
                        /\ session_locks'[sid] = session_locks[sid]
                        /\ session_timestamps'[sid] = session_timestamps[sid]
      ]_vars

\* A sticky return that overrode the selector: the session got its bound
\* account, touched now, after the clock had moved, while the selector alone
\* would return another account.
C4_Witness ==
    /\ last.op = "get_available_account"
    /\ \E sid \in SessionIds :
          /\ last.sid = sid
          /\ last.ret = session_locks[sid]
          /\ session_timestamps[sid] = now
    /\ now > 0
    /\ last.ret # NoAccount
    /\ select(accounts).ret # last.ret

\* ========================================================= refresh manager
\* refresh_all_with_token runs on one event loop: the code between two awaits
\* is one step.  A call is "idle" before it starts, "gather" while it awaits
\* its refresh_one tasks, and "returned", "rejected" or "cancelled" once it
\* has ended.

\* ------------------------------------------------------- progress operators
\* RefreshManager._start_refresh: a fresh progress object, status running.
start_refresh(total) ==
    [present |-> TRUE, total |-> total, completed |-> 0, success |-> 0, failed |-> 0,
     current_account |-> NoAccount, status |-> "running", message |-> "start"]

\* _update_progress that counts a failure in failed but not in completed.
update_progress_failed_uncounted(p, current_account, success, failed, message) ==
    IF ~p.present THEN p
    ELSE [p EXCEPT
            !.current_account = IF current_account # NoAccount
                                THEN current_account ELSE @,
            !.success = IF success THEN @ + 1 ELSE @,
            !.failed = IF ~success /\ failed THEN @ + 1 ELSE @,
            !.completed = IF success THEN @ + 1 ELSE @,
            !.message = IF message # "none" THEN message ELSE @]

\* RefreshManager._update_progress; NoAccount and "none" stand for None.
update_progress(p, current_account, success, failed, message) ==
    IF ~p.present THEN p
    ELSE [p EXCEPT
            !.current_account = IF current_account # NoAccount
                                THEN current_account ELSE @,
            !.success = IF success THEN @ + 1 ELSE @,
            !.failed = IF ~success /\ failed THEN @ + 1 ELSE @,
            !.completed = IF success \/ failed THEN @ + 1 ELSE @,
            !.message = IF message # "none" THEN message ELSE @]

\* RefreshManager._finish_refresh, the part that touches the progress object.
finish_refresh(p, status, message) ==
    IF ~p.present THEN p
    ELSE [p EXCEPT
            !.status = status,
            !.current_account = NoAccount,
            !.message = IF message # "none" THEN message
                        ELSE IF status = "completed" THEN "finished" ELSE @]

\* The value built at lines 596-600 when there is no progress object.
InProgressError ==
    [present |-> TRUE, total |-> 0, completed |-> 0, success |-> 0, failed |-> 0,
     current_account |-> NoAccount, status |-> "error", message |-> "in_progress"]

\* A rejected call that answers with the status=error value whatever the
\* progress object is.
rejected_progress_always_error(p) == InProgressError

\* What a call that failed to take the lock returns: the progress object if
\* there is one, else the status=error value.
rejected_progress(p) == IF p.present THEN p ELSE InProgressError

\* ------------------------------------------------------------ lock operators
\* acquire_refresh_lock that never looks at the lock.
acquire_refresh_lock_unchecked(locked) == TRUE

\* RefreshManager.acquire_refresh_lock: false when locked, else the lock is
\* taken at once (asyncio.Lock.acquire does not wait on a free lock).
acquire_refresh_lock(locked) == ~locked

\* RefreshManager.release_refresh_lock: the lock after the call.
release_refresh_lock(locked) == FALSE

\* -------------------------------------------------------- per-account steps
\* The outcomes of Account.refresh_token as refresh_token_if_needed sees them:
\* the token needs no refresh, is refreshed, fails to refresh, has no
\* credentials to refresh with, or the refresher raises.
TokenOutcomes == {"valid", "refreshed", "failed", "no_creds", "raised"}

\* The outcomes of get_quota_func: (True, usage), (False, error) or an exception.
QuotaOutcomes == {"ok", "failed", "raised"}

\* The states of a refresh_one task that has ended.
DoneStates == {"success", "failed", "raised", "cancelled"}

\* The filter at the head of refresh_all_with_token, in the order of accounts.
accounts_to_refresh(accs, skip_disabled, skip_error) ==
    SelectSeq(accs, LAMBDA acc :
        /\ ~(skip_disabled /\ ~acc.enabled)
        /\ ~(skip_error /\ acc.status \in {UNHEALTHY, SUSPENDED}))

\* The refresh_one coroutines handed to gather, none started yet.
refresh_one_tasks(accs) ==
    [i \in 1..Len(accs) |-> [id |-> accs[i].id, st |-> "waiting", calls |-> 0]]

\* RefreshManager.refresh_account_with_token: "ok" for (True, _), "fail" for
\* (False, _), "raise" when an exception leaves it.  An exception of
\* get_quota_func is caught inside; one of the token refresh is not.
refresh_account_with_token(token, quota) ==
    IF token = "raised" THEN "raise"
    ELSE IF token \in {"failed", "no_creds"} THEN "fail"
    ELSE IF quota = "ok" THEN "ok" ELSE "fail"

\* retry_with_backoff that stops one attempt early.
retry_with_backoff_one_short(result, attempt, retries) ==
    IF result = "ok" THEN "success"
    ELSE IF attempt + 1 < retries THEN "running"
    ELSE "failed"

\* retry_with_backoff that lets an exception of the wrapped call escape.
retry_with_backoff_raising(result, attempt, retries) ==
    IF result = "ok" THEN "success"
    ELSE IF result = "raise" THEN "raised"
    ELSE IF attempt < retries THEN "running"
    ELSE "failed"

\* RefreshManager.retry_with_backoff, one turn of its loop: the state of the
\* task after the attempt numbered attempt (from 0) gave result.
retry_with_backoff(result, attempt, retries) ==
    IF result = "ok" THEN "success"
    ELSE IF attempt < retries THEN "running"
    ELSE "failed"

\* Account.refresh_token's effect on the account's status.
account_after_token(acc, token) ==
    IF token = "refreshed" THEN [acc EXCEPT !.status = ACTIVE]
    ELSE IF token = "failed" THEN [acc EXCEPT !.status = UNHEALTHY]
    ELSE acc

\* asyncio.Semaphore.acquire that never blocks.
semaphore_unchecked(sem) == TRUE

\* asyncio.Semaphore: acquire goes through while the value is positive.
semaphore_free(sem) == sem > 0

\* The tasks of a call that have the semaphore and have not ended.
InFlight(c) == {i \in 1..Len(pass[c].tasks) : pass[c].tasks[i].st = "running"}

\* The tasks of a call still queued on the semaphore.
Waiting(c) == {i \in 1..Len(pass[c].tasks) : pass[c].tasks[i].st = "waiting"}

\* ------------------------------------------------------------- batch steps
\* refresh_all_with_token up to its first await: try the lock; when refused,
\* return at once; else filter, _start_refresh, and either finish an empty
\* pass (releasing the lock in finally) or create the semaphore and the tasks.
StartPass(c, skip_disabled, skip_error) ==
    /\ pc[c] = "idle"
    /\ IF ~acquire_refresh_lock(async_lock)
       THEN /\ returned' = Return("rejected", c, rejected_progress(progress), <<>>)
            /\ UNCHANGED <<async_lock, is_refreshing, progress, pass, pc>>
       ELSE LET to_refresh == accounts_to_refresh(accounts, skip_disabled, skip_error)
                total == Len(to_refresh)
            IN  IF total = 0
                THEN /\ progress' = finish_refresh(start_refresh(total),
                                                   "completed", "no_accounts")
                     /\ is_refreshing' = FALSE
                     /\ returned' = Return("returned", c, progress', <<>>)
                     /\ async_lock' = release_refresh_lock(TRUE)
                     /\ UNCHANGED <<pass, pc>>
                ELSE /\ progress' = start_refresh(total)
                     /\ is_refreshing' = TRUE
                     /\ async_lock' = TRUE
                     /\ pass' = [pass EXCEPT ![c] =
                                   [tasks |-> refresh_one_tasks(to_refresh),
                                    sem |-> config.concurrency]]
                     /\ pc' = [pc EXCEPT ![c] = "gather"]
                     /\ returned' = NoReturn
    /\ UNCHANGED <<config, direct, accounts, last>>
    /\ UNCHANGED selector_vars
    /\ UNCHANGED service_vars

\* refresh_one enters "async with semaphore" (the tasks queue in the order of
\* the list) and names its account as the current one.
AcquireSemaphore(c) ==
    /\ pc[c] = "gather"
    /\ Waiting(c) # {}
    /\ semaphore_free(pass[c].sem)
    /\ LET i == CHOOSE j \in Waiting(c) : \A k \in Waiting(c) : j <= k
       IN  /\ pass' = [pass EXCEPT ![c].tasks[i].st = "running",
                                   ![c].sem = @ - 1]
           /\ progress' = update_progress(progress, pass[c].tasks[i].id,
                                          FALSE, FALSE, "refreshing")
    /\ returned' = NoReturn
    /\ UNCHANGED <<config, async_lock, is_refreshing, pc, direct, accounts, last>>
    /\ UNCHANGED selector_vars
    /\ UNCHANGED service_vars

\* One attempt of retry_with_backoff inside refresh_one: the token step, the
\* quota step (which stores the usage in the quota cache when it succeeds),
\* then either another attempt after the backoff sleep, or the task counts
\* itself in the progress and leaves the semaphore.
Attempt(c, i, token, quota, balance) ==
    /\ pc[c] = "gather"
    /\ i \in InFlight(c)
    /\ LET task == pass[c].tasks[i]
           k == IndexOf(task.id)
           result == refresh_account_with_token(token, quota)
           st == retry_with_backoff(result, task.calls, config.max_retries)
       IN  /\ accounts' = [accounts EXCEPT ![k] = account_after_token(@, token)]
           /\ quota_cache' = IF result = "ok"
                             THEN [quota_cache EXCEPT ![task.id] = from_usage_info(balance)]
                             ELSE quota_cache
           /\ pass' = [pass EXCEPT ![c].tasks[i].st = st,
                                   ![c].tasks[i].calls = @ + 1,
                                   ![c].sem = IF st = "running" THEN @ ELSE @ + 1]
           /\ progress' = IF st \in {"success", "failed"}
                          THEN update_progress(progress, NoAccount, st = "success",
                                               st = "failed", "none")
                          ELSE progress
    /\ returned' = NoReturn
    /\ UNCHANGED <<config, async_lock, is_refreshing, pc, direct, last>>
    /\ UNCHANGED <<exceeded_records, now, priority_accounts, strategy,
                   round_robin_index, session_locks, session_timestamps>>
    /\ UNCHANGED service_vars

\* gather has every result: _finish_refresh("completed"), return the progress,
\* release the lock in finally.
FinishPass(c) ==
    /\ pc[c] = "gather"
    /\ \A i \in 1..Len(pass[c].tasks) : pass[c].tasks[i].st \in DoneStates
    /\ progress' = finish_refresh(progress, "completed", "none")
    /\ is_refreshing' = FALSE
    /\ returned' = Return("returned", c, progress', pass[c].tasks)
    /\ async_lock' = release_refresh_lock(async_lock)
    /\ pc' = [pc EXCEPT ![c] = "idle"]
    /\ pass' = [pass EXCEPT ![c] = NoPass]
    /\ UNCHANGED <<config, direct, accounts, last>>
    /\ UNCHANGED selector_vars
    /\ UNCHANGED service_vars

\* The task running refresh_all_with_token is cancelled while it awaits gather:
\* gather cancels the tasks that have not ended, CancelledError (not an
\* Exception) passes the except clause, and finally releases the lock.
CancelPass(c) ==
    /\ pc[c] = "gather"
    /\ returned' = Return("cancelled", c, NoProgress,
                          [i \in 1..Len(pass[c].tasks) |->
                              IF pass[c].tasks[i].st \in DoneStates
                              THEN pass[c].tasks[i]
                              ELSE [pass[c].tasks[i] EXCEPT !.st = "cancelled"]])
    /\ async_lock' = release_refresh_lock(async_lock)
    /\ pc' = [pc EXCEPT ![c] = "idle"]
    /\ pass' = [pass EXCEPT ![c] = NoPass]
    /\ UNCHANGED <<config, is_refreshing, progress, direct, accounts, last>>
    /\ UNCHANGED selector_vars
    /\ UNCHANGED service_vars

\* A client calls acquire_refresh_lock.
DirectAcquire(d) ==
    /\ ~direct[d]
    /\ LET ok == acquire_refresh_lock(async_lock)
       IN  /\ direct' = [direct EXCEPT ![d] = ok]
           /\ async_lock' = (async_lock \/ ok)
           /\ returned' = Answer(d, ok)
    /\ UNCHANGED <<config, is_refreshing, progress, pc, pass, accounts, last>>
    /\ UNCHANGED selector_vars
    /\ UNCHANGED service_vars

\* A client that holds the lock calls release_refresh_lock.
DirectRelease(d) ==
    /\ direct[d]
    /\ direct' = [direct EXCEPT ![d] = FALSE]
    /\ async_lock' = release_refresh_lock(async_lock)
    /\ returned' = NoReturn
    /\ UNCHANGED <<config, is_refreshing, progress, pc, pass, accounts, last>>
    /\ UNCHANGED selector_vars
    /\ UNCHANGED service_vars

\* The accounts of the refresh specification: the last one has been disabled
\* (toggle_account) before the first pass.
InitRefresh ==
    /\ accounts = [i \in 1..Len(AccountIds) |->
                     IF i = Len(AccountIds)
                     THEN [Account(AccountIds[i]) EXCEPT !.enabled = FALSE]
                     ELSE Account(AccountIds[i])]
    /\ quota_cache = [id \in IdSet |-> NoQuota]
    /\ exceeded_records = [id \in IdSet |-> NoRecord]
    /\ now = 0
    /\ priority_accounts = <<>>
    /\ strategy = LOWEST_BALANCE
    /\ round_robin_index = 0
    /\ session_locks = [sid \in SessionIds |-> NoAccount]
    /\ session_timestamps = [sid \in SessionIds |-> 0]
    /\ last = NoCall
    /\ RefreshInit
    /\ ServiceIdle

NextRefresh ==
    \/ \E c \in Callers, sd \in BOOLEAN, se \in BOOLEAN : StartPass(c, sd, se)
    \/ \E c \in Callers : AcquireSemaphore(c)
    \/ \E c \in Callers, i \in 1..Len(AccountIds), t \in TokenOutcomes,
          q \in QuotaOutcomes : Attempt(c, i, t, q, MaxBalance)
    \/ \E c \in Callers : FinishPass(c)
    \/ \E c \in Callers : CancelPass(c)

SpecRefresh == InitRefresh /\ [][NextRefresh]_vars

\* The lock taken both by batch passes and by clients of acquire_refresh_lock.
InitLock ==
    /\ accounts = [i \in 1..Len(DispatchIds) |-> Account(DispatchIds[i])]
    /\ quota_cache = [id \in IdSet |-> NoQuota]
    /\ exceeded_records = [id \in IdSet |-> NoRecord]
    /\ now = 0
    /\ priority_accounts = <<>>
    /\ strategy = LOWEST_BALANCE
    /\ round_robin_index = 0
    /\ session_locks = [sid \in SessionIds |-> NoAccount]
    /\ session_timestamps = [sid \in SessionIds |-> 0]
    /\ last = NoCall
    /\ RefreshInit
    /\ ServiceIdle

NextLock ==
    \/ \E c \in Callers, sd \in BOOLEAN, se \in BOOLEAN : StartPass(c, sd, se)
    \/ \E c \in Callers : AcquireSemaphore(c)
    \/ \E c \in Callers, i \in 1..Len(DispatchIds), t \in TokenOutcomes,
          q \in QuotaOutcomes : Attempt(c, i, t, q, MaxBalance)
    \/ \E c \in Callers : FinishPass(c)
    \/ \E c \in Callers : CancelPass(c)
    \/ \E d \in Clients : DirectAcquire(d)
    \/ \E d \in Clients : DirectRelease(d)

SpecLock == InitLock /\ [][NextLock]_vars

\* ------------------------------------------------------------ refresh claims
\* Who holds the refresh lock: the calls awaiting their tasks and the clients
\* whose acquire_refresh_lock answered true and who have not released.
Holders == {c \in Callers : pc[c] = "gather"} \cup {d \in Clients : direct[d]}

\* The number of tasks of a pass in state st.
CountSt(tasks, st) == Cardinality({i \in 1..Len(tasks) : tasks[i].st = st})

\* C5: the refresh lock is a try-acquire mutex.  At most one caller or client
\* holds it, and it is locked exactly while one does; acquire_refresh_lock
\* answers at once, true exactly when the caller becomes the only holder and
\* false only while somebody else holds the lock (so that after the release
\* an acquire answers true); a refresh_all_with_token call is refused only
\* while somebody else holds the lock, hence at most one batch pass executes.
C5_TryAcquireMutex ==
    /\ Cardinality(Holders) <= 1
    /\ async_lock <=> Holders # {}
    /\ returned.kind = "acquire" =>
          /\ returned.ok <=> Holders = {returned.caller}
          /\ ~returned.ok => Holders # {} /\ returned.caller \notin Holders
    /\ returned.kind = "rejected" => Holders # {} /\ returned.caller \notin Holders
    /\ Cardinality({c \in Callers : pc[c] = "gather"}) <= 1

\* Two acquire calls with no release between them: the first client holds the
\* lock, the second has just been answered false.
C5_Witness ==
    /\ returned.kind = "acquire"
    /\ ~returned.ok
    /\ \E d \in Clients : d # returned.caller /\ direct[d]

\* C6: whenever a refresh_all_with_token call that took the lock has ended,
\* by returning or by the cancellation of its task, the lock is released and
\* is_refreshing() is false.
C6_ReleasedAndNotRefreshing ==
    returned.kind \in {"returned", "cancelled"} => ~async_lock /\ ~is_refreshing

\* A pass has ended by cancellation: the lock is free, yet the manager still
\* reports a refresh in progress with a progress object left in status running.
C6_Witness ==
    /\ returned.kind = "cancelled"
    /\ ~async_lock
    /\ is_refreshing
    /\ progress.status = "running"

\* C7 as written: a call refused while another batch pass holds the lock
\* returns a progress value with status error and the in-progress message.
C7_RejectedReturnsError ==
    (returned.kind = "rejected" /\ \E c \in Callers : pc[c] = "gather") =>
        /\ returned.value.status = "error"
        /\ returned.value.message = "in_progress"

\* C7: a refresh_all_with_token call that is refused the lock changes nothing
\* (no account, no cached quota, no counter of the running pass, no task) and
\* returns the manager's progress object as it stands; while another batch
\* pass holds the lock that object has status running.  The status error
\* value is returned only when the manager has no progress object.
C7_RejectedReturnsCurrentProgress ==
    [][returned'.kind = "rejected" =>
          /\ UNCHANGED <<accounts, quota_cache, progress, pass, pc, is_refreshing,
                         async_lock>>
          /\ progress.present => returned'.value = progress
          /\ ~progress.present <=> returned'.value = InProgressError
          /\ (\E c \in Callers : pc[c] = "gather") =>
                /\ returned'.value.status = "running"
                /\ returned'.value.total = Len(pass[CHOOSE c \in Callers :
                                                      pc[c] = "gather"].tasks)]_vars

\* A call has just been refused while a pass that has already counted an
\* account is running, and was handed that pass's progress.
C7_Witness ==
    /\ returned.kind = "rejected"
    /\ \E c \in Callers : pc[c] = "gather" /\ c # returned.caller
    /\ returned.value = progress
    /\ returned.value.status = "running"
    /\ returned.value.completed > 0

\* C8: in a batch pass the number of refresh_one tasks inside the semaphore
\* (token step, quota step and the retries of both) never exceeds the
\* configured concurrency.
C8_InFlightBounded ==
    \A c \in Callers :
        pc[c] = "gather" =>
            /\ Cardinality(InFlight(c)) <= config.concurrency
            /\ Cardinality(InFlight(c)) + pass[c].sem = config.concurrency

\* The semaphore is full, one of its tasks is between two attempts, and a
\* further task is kept waiting.
C8_Witness ==
    \E c \in Callers :
        /\ pc[c] = "gather"
        /\ Cardinality(InFlight(c)) = config.concurrency
        /\ Waiting(c) # {}
        /\ \E i \in InFlight(c) : pass[c].tasks[i].calls > 0

\* C9: the progress counters always satisfy completed = success + failed and
\* completed <= total; while a pass runs, total is the number of accounts
\* that passed the filter and every task that has ended by success or failure
\* is counted exactly once, in the counter of its outcome; when the pass
\* returns, total = completed = the number of filtered accounts.
C9_ProgressCounters ==
    /\ progress.present =>
          /\ progress.completed = progress.success + progress.failed
          /\ progress.completed <= progress.total
    /\ \A c \in Callers :
          pc[c] = "gather" =>
              /\ progress.total = Len(pass[c].tasks)
              /\ progress.success = CountSt(pass[c].tasks, "success")
              /\ progress.failed = CountSt(pass[c].tasks, "failed")
              /\ \A i, j \in 1..Len(pass[c].tasks) :
                    pass[c].tasks[i].id = pass[c].tasks[j].id => i = j
    /\ returned.kind = "returned" =>
          /\ returned.value.total = Len(returned.tasks)
          /\ returned.value.completed = returned.value.total

\* A pass over three accounts has returned with successes and failures.
C9_Witness ==
    /\ returned.kind = "returned"
    /\ returned.value.total = 3
    /\ returned.value.success > 0
    /\ returned.value.failed > 0

\* C10: when a pass returns, every account of it has been attempted and
\* counted: each task ended by success or by failure, a failed one after
\* max_retries + 1 failing attempts (failures returned or raised alike),
\* failed counts exactly the failed tasks and success the others, and the
\* status is completed: no error of an account ends the pass or leaves it.
C10_FailureIsolated ==
    returned.kind = "returned" =>
        /\ returned.value.status = "completed"
        /\ \A i \in 1..Len(returned.tasks) :
              /\ returned.tasks[i].st \in {"success", "failed"}
              /\ returned.tasks[i].calls >= 1
              /\ returned.tasks[i].st = "failed" =>
                    returned.tasks[i].calls = config.max_retries + 1
        /\ returned.value.failed = CountSt(returned.tasks, "failed")
        /\ returned.value.success = CountSt(returned.tasks, "success")

\* A pass over three accounts has returned: the first account failed on
\* every attempt and the two others succeeded.
C10_Witness ==
    /\ returned.kind = "returned"
    /\ Len(returned.tasks) = 3
    /\ returned.tasks[1].st = "failed"
    /\ returned.tasks[1].calls = config.max_retries + 1
    /\ config.max_retries > 0
    /\ returned.tasks[2].st = "success"
    /\ returned.tasks[3].st = "success"
    /\ returned.value.failed = 1
    /\ returned.value.success = 2
    /\ returned.value.status = "completed"

\* ======================================================= retry_with_backoff
\* One call of retry_with_backoff at a time.  The call is "running" when it is
\* about to call the operation, "sleeping" during a backoff wait, "done" when
\* it has returned (ok, value).

\* 2 ** n.
RECURSIVE Pow2(_)
Pow2(n) == IF n = 0 THEN 1 ELSE 2 * Pow2(n - 1)

\* str.lower() on the words that occur in error texts.
Lower(word) ==
    IF word = "Rate Limit" THEN "rate limit"
    ELSE IF word = "Unauthorized" THEN "unauthorized"
    ELSE word

\* needle in text.
Contains(words, needle) == \E i \in 1..Len(words) : words[i] = needle

\* needle in text.lower().
LowerContains(words, needle) == \E i \in 1..Len(words) : Lower(words[i]) = needle

\* RefreshManager._is_rate_limit_error.
is_rate_limit_error(error) ==
    /\ error.is_str
    /\ \/ Contains(error.words, "429")
       \/ LowerContains(error.words, "rate limit")
       \/ Contains(error.words, "too frequent (zh)")

\* RefreshManager._get_rate_limit_delay.
get_rate_limit_delay(attempt, base_delay) == base_delay * 3 * Pow2(attempt)

\* The error data an attempt may fail with: plain text, the three rate-limit
\* phrasings, and a dict (not a str) that mentions 429.
ErrorData ==
    {Datum(TRUE, <<"boom">>), Datum(TRUE, <<"HTTP", "429">>),
     Datum(TRUE, <<"Rate Limit">>), Datum(TRUE, <<"too frequent (zh)">>),
     Datum(FALSE, <<"429">>)}

\* What one call of the operation does: return (True, data), return a value
\* that is no 2-tuple, return (False, error), or raise Exception(text).
CallOutcomes ==
    {[kind |-> "ok", data |-> Datum(FALSE, <<"usage">>)],
     [kind |-> "plain", data |-> Datum(FALSE, <<"value">>)]}
    \cup {[kind |-> "fail", data |-> e] : e \in ErrorData}
    \cup {[kind |-> "raise", data |-> e] : e \in {d \in ErrorData : d.is_str}}

\* How retry_with_backoff reads an outcome: a non-tuple counts as success.
call_result(o) ==
    IF o.kind \in {"ok", "plain"} THEN "ok"
    ELSE IF o.kind = "fail" THEN "fail" ELSE "raise"

\* The delay retry_with_backoff computes after a failed attempt (lines
\* 520-532): classified for a returned failure, never for a raised one.
backoff_delay(o, attempt, base_delay) ==
    IF o.kind = "fail" /\ is_rate_limit_error(o.data)
    THEN get_rate_limit_delay(attempt, base_delay)
    ELSE base_delay * Pow2(attempt)

\* retry_with_backoff(func, max_retries=retries) is called.
RetryStart(retries, base_delay) ==
    /\ retry.st \in {"idle", "done"}
    /\ retry' = [NoRetry EXCEPT !.st = "running", !.retries = retries,
                                !.base_delay = base_delay]
    /\ UNCHANGED <<accounts, last, auth, timer, tok, sched, mark, priority_file, prio_call, hist, cache_file, cache_call, disk, cfg_call, rr, activity, creds, auto, qtask>>
    /\ UNCHANGED selector_vars
    /\ UNCHANGED refresh_vars

\* One turn of the loop: call the operation; return on success; else compute
\* the delay and sleep if an attempt is left, or return (False, last_error).
RetryCall(o) ==
    /\ retry.st = "running"
    /\ LET st == retry_with_backoff(call_result(o), retry.attempt, retry.retries)
       IN  retry' = [retry EXCEPT
                       !.calls = @ + 1,
                       !.outcomes = Append(@, o),
                       !.st = IF st = "running" THEN "sleeping" ELSE "done",
                       !.waits = IF st = "running"
                                 THEN Append(@, backoff_delay(o, retry.attempt,
                                                              retry.base_delay))
                                 ELSE @,
                       !.ok = (st = "success"),
                       !.value = IF st = "running" THEN @ ELSE o.data]
    /\ UNCHANGED <<accounts, last, auth, timer, tok, sched, mark, priority_file, prio_call, hist, cache_file, cache_call, disk, cfg_call, rr, activity, creds, auto, qtask>>
    /\ UNCHANGED selector_vars
    /\ UNCHANGED refresh_vars

\* asyncio.sleep(delay) is over: the next attempt.
RetryWake ==
    /\ retry.st = "sleeping"
    /\ retry' = [retry EXCEPT !.st = "running", !.attempt = @ + 1]
    /\ UNCHANGED <<accounts, last, auth, timer, tok, sched, mark, priority_file, prio_call, hist, cache_file, cache_call, disk, cfg_call, rr, activity, creds, auto, qtask>>
    /\ UNCHANGED selector_vars
    /\ UNCHANGED refresh_vars

NextRetry ==
    \/ \E n \in 0..MaxRetryArg, b \in 1..MaxBaseDelay : RetryStart(n, b)
    \/ \E o \in CallOutcomes : RetryCall(o)
    \/ RetryWake

SpecRetry == Init /\ [][NextRetry]_vars

\* The outcomes of a call that are failures.
Failed(o) == o.kind \in {"fail", "raise"}

\* C11: retry_with_backoff with max_retries = N calls the operation at most
\* N + 1 times; when it returns a failure the operation was called exactly
\* N + 1 times, failed every time (by a returned failure or by raising) and
\* the value returned is the last error; when it returns a success the
\* operation failed on every call before the last, succeeded on the last (the
\* k-th, k <= N + 1) and that call's data is returned.
C11_RetryCount ==
    /\ retry.calls = Len(retry.outcomes)
    /\ retry.calls <= retry.retries + 1
    /\ retry.st = "done" =>
          /\ retry.calls >= 1
          /\ \A i \in 1..(retry.calls - 1) : Failed(retry.outcomes[i])
          /\ retry.value = retry.outcomes[retry.calls].data
          /\ retry.ok <=> ~Failed(retry.outcomes[retry.calls])
          /\ ~retry.ok => retry.calls = retry.retries + 1
    /\ retry.st \in {"running", "sleeping"} =>
          \A i \in 1..retry.calls : Failed(retry.outcomes[i])

\* A call with max_retries = 2 has returned a failure after three failing
\* calls, one of them by raising, one by a returned failure.
C11_Witness ==
    /\ retry.st = "done"
    /\ ~retry.ok
    /\ retry.retries = 2
    /\ retry.calls = 3
    /\ retry.outcomes[1].kind = "raise"
    /\ retry.outcomes[3].kind = "fail"
    /\ retry.value = retry.outcomes[3].data

\* C12: with base delay b, the wait after failed attempt i (from 0) is
\* 3 * b * 2^i when the error text of that attempt is classified as rate-limit
\* and b * 2^i otherwise, whether the attempt failed by a returned failure or
\* by raising; there is one wait per failed attempt but the last, none after
\* the final attempt.
C12_BackoffDelays ==
    /\ Len(retry.waits) <= retry.retries
    /\ retry.st = "done" => Len(retry.waits) = retry.calls - 1
    /\ retry.st = "sleeping" => Len(retry.waits) = retry.calls
    /\ \A i \in 1..Len(retry.waits) :
          retry.waits[i] =
              IF is_rate_limit_error(retry.outcomes[i].data)
              THEN 3 * retry.base_delay * Pow2(i - 1)
              ELSE retry.base_delay * Pow2(i - 1)

\* The second attempt raised an exception whose text holds 429 and the call
\* sleeps b * 2 after it, not 3 * b * 2.
C12_Witness ==
    /\ retry.st = "sleeping"
    /\ retry.calls = 2
    /\ retry.outcomes[2].kind = "raise"
    /\ is_rate_limit_error(retry.outcomes[2].data)
    /\ retry.waits[2] = retry.base_delay * 2

\* ================================================= execute_with_auth_retry
\* One call at a time.  The call is at "op1" before the first run of the
\* operation; "refresh_try" and "op2_try" are the token refresh and the re-run
\* inside the try block (lines 700-717), "refresh_except" and "op2_except"
\* those of the except branch (lines 721-742); "done" when it has returned
\* (ok, value), "raised" when an exception has left it.

\* RefreshManager._is_auth_error.
is_auth_error(error) ==
    /\ error.is_str
    /\ \/ Contains(error.words, "401")
       \/ LowerContains(error.words, "unauthorized")
       \/ Contains(error.words, "credentials expired (zh)")
       \/ Contains(error.words, "login again (zh)")

\* The error data a run of the operation may fail with.
AuthErrorData ==
    {Datum(TRUE, <<"boom">>), Datum(TRUE, <<"HTTP", "401">>),
     Datum(TRUE, <<"Unauthorized">>), Datum(FALSE, <<"401">>)}

\* What one run of the operation does.
OpOutcomes ==
    {[kind |-> "ok", data |-> Datum(FALSE, <<"body">>)],
     [kind |-> "plain", data |-> Datum(FALSE, <<"value">>)]}
    \cup {[kind |-> "fail", data |-> e] : e \in AuthErrorData}
    \cup {[kind |-> "raise", data |-> e] : e \in {d \in AuthErrorData : d.is_str}}

\* What account.refresh_token() does: (True, msg), (False, msg), or raise.
RefreshOutcomes ==
    {[kind |-> "ok", data |-> Datum(TRUE, <<"refreshed">>)],
     [kind |-> "fail", data |-> Datum(TRUE, <<"no credentials">>)],
     [kind |-> "raise", data |-> Datum(TRUE, <<"disk full">>)],
     [kind |-> "raise", data |-> Datum(TRUE, <<"HTTP", "401">>)]}

\* f"Token 刷新失败: {refresh_msg}".
refresh_failed_value(msg) == Datum(TRUE, <<"token refresh failed:">> \o msg.words)

\* f"重试失败: {str(retry_e)}".
retry_failed_value(error) == Datum(TRUE, <<"retry failed:">> \o error.words)

\* An op or refresh_token event of the call.
Event(what, o) == [what |-> what, kind |-> o.kind, data |-> o.data]

\* The call returns (ok, value).
AuthReturn(a, ok, value) == [a EXCEPT !.st = "done", !.ok = ok, !.value = value]

\* A run of the operation has ended with outcome o: what the call does next.
auth_after_op(a, o) ==
    IF o.kind \in {"ok", "plain"} THEN AuthReturn(a, TRUE, o.data)
    ELSE IF o.kind = "fail"
    THEN IF a.st = "op1" /\ is_auth_error(o.data)
         THEN [a EXCEPT !.st = "refresh_try"]
         ELSE AuthReturn(a, FALSE, o.data)
    ELSE IF a.st = "op2_except" THEN AuthReturn(a, FALSE, retry_failed_value(o.data))
    ELSE IF is_auth_error(o.data) THEN [a EXCEPT !.st = "refresh_except"]
    ELSE AuthReturn(a, FALSE, o.data)

\* refresh_token after which the operation is run again whatever it answered.
auth_after_refresh_always_rerun(a, r) ==
    [a EXCEPT !.st = IF a.st = "refresh_try" THEN "op2_try" ELSE "op2_except"]

\* account.refresh_token() has ended with outcome r: what the call does next.
auth_after_refresh(a, r) ==
    IF r.kind = "ok"
    THEN [a EXCEPT !.st = IF a.st = "refresh_try" THEN "op2_try" ELSE "op2_except"]
    ELSE IF r.kind = "fail" THEN AuthReturn(a, FALSE, refresh_failed_value(r.data))
    ELSE IF a.st = "refresh_except" THEN [a EXCEPT !.st = "raised"]
    ELSE IF is_auth_error(r.data) THEN [a EXCEPT !.st = "refresh_except"]
    ELSE AuthReturn(a, FALSE, r.data)

\* execute_with_auth_retry(account, func) is called for the account at index i.
AuthStart(i) ==
    /\ auth.st \in {"idle", "done", "raised"}
    /\ auth' = [NoAuth EXCEPT !.st = "op1", !.account = i]
    /\ UNCHANGED <<accounts, last, retry, timer, tok, sched, mark, priority_file, prio_call, hist, cache_file, cache_call, disk, cfg_call, rr, activity, creds, auto, qtask>>
    /\ UNCHANGED selector_vars
    /\ UNCHANGED refresh_vars

\* A run of the operation ends.
AuthOp(o) ==
    /\ auth.st \in {"op1", "op2_try", "op2_except"}
    /\ auth' = [auth_after_op(auth, o) EXCEPT !.events = Append(@, Event("op", o))]
    /\ UNCHANGED <<accounts, last, retry, timer, tok, sched, mark, priority_file, prio_call, hist, cache_file, cache_call, disk, cfg_call, rr, activity, creds, auto, qtask>>
    /\ UNCHANGED selector_vars
    /\ UNCHANGED refresh_vars

\* account.refresh_token() ends; a returned answer sets the account's status.
AuthRefresh(r) ==
    /\ auth.st \in {"refresh_try", "refresh_except"}
    /\ auth' = [auth_after_refresh(auth, r) EXCEPT
                  !.events = Append(@, Event("refresh", r))]
    /\ accounts' = [accounts EXCEPT ![auth.account] =
                      account_after_token(@, IF r.kind = "ok" THEN "refreshed"
                                             ELSE IF r.kind = "fail" THEN "failed"
                                             ELSE "raised")]
    /\ UNCHANGED <<last, retry, timer, tok, sched, mark, priority_file, prio_call, hist, cache_file, cache_call, disk, cfg_call, rr, activity, creds, auto, qtask>>
    /\ UNCHANGED selector_vars
    /\ UNCHANGED refresh_vars

NextAuth ==
    \/ \E i \in 1..Len(DispatchIds) : AuthStart(i)
    \/ \E o \in OpOutcomes : AuthOp(o)
    \/ \E r \in RefreshOutcomes : AuthRefresh(r)

SpecAuth == InitDispatch /\ [][NextAuth]_vars

\* The events of the call that are runs of the operation / token refreshes.
OpEvents == {i \in 1..Len(auth.events) : auth.events[i].what = "op"}
RefreshEvents == {i \in 1..Len(auth.events) : auth.events[i].what = "refresh"}

\* C13: execute_with_auth_retry calls account.refresh_token() only after the
\* first run of the operation failed with a 401-classified error (returned or
\* raised), calls it at most once, and runs the operation at most twice; when
\* the first run fails with 401, the refresh succeeds and the second run
\* succeeds, the call returns success with the second run's data.
C13_RefreshOnceRerunOnce ==
    /\ Cardinality(RefreshEvents) <= 1
    /\ Cardinality(OpEvents) <= 2
    /\ RefreshEvents # {} =>
          /\ auth.events[1].kind \in {"fail", "raise"}
          /\ is_auth_error(auth.events[1].data)
          /\ RefreshEvents = {2}
    /\ (/\ auth.st = "done"
        /\ Len(auth.events) = 3
        /\ auth.events[2].kind = "ok"
        /\ auth.events[3].kind = "ok") =>
          /\ auth.ok
          /\ auth.value = auth.events[3].data

\* The first run returned a 401 failure, the token was refreshed, the second
\* run raised a 401 error, the token was refreshed again and the operation
\* has run a third time.
C13_Witness ==
    /\ Len(auth.events) = 5
    /\ auth.events[1].kind = "fail"
    /\ auth.events[3].kind = "raise"
    /\ Cardinality(RefreshEvents) = 2
    /\ Cardinality(OpEvents) = 3
    /\ auth.st = "done"

\* C14 as written: when the operation fails with a 401-classified error and
\* the token refresh that follows fails, the operation is not run again and
\* the call returns a failure whose value is the operation's failure.
C14_PropagatesOriginalFailure ==
    (/\ auth.st = "done"
     /\ Len(auth.events) >= 2
     /\ auth.events[2].what = "refresh"
     /\ auth.events[2].kind = "fail") =>
        /\ Len(auth.events) = 2
        /\ ~auth.ok
        /\ auth.value = auth.events[1].data

\* C14: a token refresh that answers (False, msg) ends the call: no run of
\* the operation and no further refresh follows it, and the call returns the
\* failure "token refresh failed: msg", which holds the refresh's message and
\* not the failure of the operation.
C14_RefreshFailureReturned ==
    \A i \in RefreshEvents :
        auth.events[i].kind = "fail" =>
            /\ i = Len(auth.events)
            /\ auth.st = "done"
            /\ ~auth.ok
            /\ auth.value = refresh_failed_value(auth.events[i].data)
            /\ auth.value # auth.events[1].data

\* The operation returned a 401 failure, the refresh answered failure, and
\* the call has returned the refresh's failure after a single run.
C14_Witness ==
    /\ auth.st = "done"
    /\ Len(auth.events) = 2
    /\ auth.events[1].kind = "fail"
    /\ is_auth_error(auth.events[1].data)
    /\ auth.events[2].what = "refresh"
    /\ auth.events[2].kind = "fail"
    /\ ~auth.ok
    /\ auth.value = refresh_failed_value(auth.events[2].data)

\* ======================================================= auto-refresh timer
\* start_auto_refresh and stop_auto_refresh yield only at "await
\* self._auto_refresh_task"; a call is "start_join" or "stop_join" while it
\* waits there for the task it has cancelled.  Timer tasks are numbered from 1.

\* The first half of stop_auto_refresh: clear the flag and cancel the task in
\* _auto_refresh_task if there is one.
stop_begin(t) ==
    [t EXCEPT !.running = FALSE,
              !.cancelled = IF t.task # 0 THEN @ \cup {t.task} ELSE @]

\* stop_auto_refresh has to wait: there is a task and it has not ended.
must_join(t) == t.task # 0 /\ t.task \in t.alive

\* The second half of start_auto_refresh: set the flag and create the task.
start_end(t) ==
    [t EXCEPT !.running = TRUE, !.task = t.created + 1, !.created = @ + 1,
              !.alive = @ \cup {t.created + 1}, !.last = "start"]

\* RefreshManager.is_auto_refresh_running.
is_auto_refresh_running == timer.running /\ timer.task # 0

\* start_auto_refresh up to its first wait, or to its end when it has none.
StartAutoRefresh(c) ==
    /\ timer.calls[c].st = "idle"
    /\ timer.created < MaxTimerTasks
    /\ LET t == stop_begin(timer)
       IN  timer' = IF must_join(t)
                    THEN [t EXCEPT !.calls[c] = [st |-> "start_join", awaits |-> t.task]]
                    ELSE start_end([t EXCEPT !.task = 0])
    /\ UNCHANGED <<accounts, last, retry, auth, tok, sched, mark, priority_file, prio_call, hist, cache_file, cache_call, disk, cfg_call, rr, activity, creds, auto, qtask>>
    /\ UNCHANGED selector_vars
    /\ UNCHANGED refresh_vars

\* start_auto_refresh after the task it waited for has ended: the rest of
\* stop_auto_refresh (_auto_refresh_task = None), then flag and new task.
StartResume(c) ==
    /\ timer.calls[c].st = "start_join"
    /\ timer.calls[c].awaits \notin timer.alive
    /\ timer.created < MaxTimerTasks
    /\ timer' = start_end([timer EXCEPT !.task = 0, !.calls[c] = NoTimerCall])
    /\ UNCHANGED <<accounts, last, retry, auth, tok, sched, mark, priority_file, prio_call, hist, cache_file, cache_call, disk, cfg_call, rr, activity, creds, auto, qtask>>
    /\ UNCHANGED selector_vars
    /\ UNCHANGED refresh_vars

\* stop_auto_refresh up to its wait, or to its end when it has none.
StopAutoRefresh(c) ==
    /\ timer.calls[c].st = "idle"
    /\ LET t == stop_begin(timer)
       IN  timer' = IF must_join(t)
                    THEN [t EXCEPT !.calls[c] = [st |-> "stop_join", awaits |-> t.task]]
                    ELSE [t EXCEPT !.task = 0, !.last = "stop"]
    /\ UNCHANGED <<accounts, last, retry, auth, tok, sched, mark, priority_file, prio_call, hist, cache_file, cache_call, disk, cfg_call, rr, activity, creds, auto, qtask>>
    /\ UNCHANGED selector_vars
    /\ UNCHANGED refresh_vars

\* stop_auto_refresh after the task it waited for has ended.
StopResume(c) ==
    /\ timer.calls[c].st = "stop_join"
    /\ timer.calls[c].awaits \notin timer.alive
    /\ timer' = [timer EXCEPT !.task = 0, !.calls[c] = NoTimerCall, !.last = "stop"]
    /\ UNCHANGED <<accounts, last, retry, auth, tok, sched, mark, priority_file, prio_call, hist, cache_file, cache_call, disk, cfg_call, rr, activity, creds, auto, qtask>>
    /\ UNCHANGED selector_vars
    /\ UNCHANGED refresh_vars

\* _auto_refresh_loop ends: a cancelled task at its next await (CancelledError:
\* break), any task when it wakes from its sleep and finds the flag cleared.
TimerTaskEnds(k) ==
    /\ k \in timer.alive
    /\ k \in timer.cancelled \/ ~timer.running
    /\ timer' = [timer EXCEPT !.alive = @ \ {k}]
    /\ UNCHANGED <<accounts, last, retry, auth, tok, sched, mark, priority_file, prio_call, hist, cache_file, cache_call, disk, cfg_call, rr, activity, creds, auto, qtask>>
    /\ UNCHANGED selector_vars
    /\ UNCHANGED refresh_vars

NextTimer ==
    \/ \E c \in TimerCallers : StartAutoRefresh(c)
    \/ \E c \in TimerCallers : StartResume(c)
    \/ \E c \in TimerCallers : StopAutoRefresh(c)
    \/ \E c \in TimerCallers : StopResume(c)
    \/ \E k \in 1..MaxTimerTasks : TimerTaskEnds(k)

SpecTimer == Init /\ [][NextTimer]_vars

\* No start_auto_refresh call is under way.
NoStartInProgress == \A c \in TimerCallers : timer.calls[c].st # "start_join"

\* C15: whenever no start or stop call is under way at most one timer task is
\* alive; and when the call that returned last is a stop_auto_refresh and no
\* start is in progress, no timer task is alive and is_auto_refresh_running()
\* is false.
C15_AtMostOneTimer ==
    /\ (\A c \in TimerCallers : timer.calls[c].st = "idle") =>
          Cardinality(timer.alive) <= 1
    /\ (timer.last = "stop" /\ NoStartInProgress) =>
          /\ timer.alive = {}
          /\ ~is_auto_refresh_running

\* Two start calls have overlapped on the cancellation of the first timer
\* task: both have returned and two timer tasks are alive, neither cancelled,
\* one of them no longer referenced by the manager.
C15_Witness ==
    /\ \A c \in TimerCallers : timer.calls[c].st = "idle"
    /\ timer.last = "start"
    /\ timer.running
    /\ Cardinality(timer.alive \ timer.cancelled) = 2
    /\ timer.task \in timer.alive

\* ===================================================== should_refresh_token
\* The function is applied to inputs drawn in the initial state: a window
\* token_refresh_before_expiry in seconds, and a credential (or none) with its
\* expiry instant in seconds.

\* Credentials.is_expired: the token's expiry instant has been reached.
creds_is_expired(expires_at) == now >= expires_at

\* Credentials.is_expiring_soon(minutes): the token expires within minutes.
creds_is_expiring_soon(expires_at, minutes) == expires_at - now < minutes * 60

\* RefreshManager.should_refresh_token: the window is cut to whole minutes
\* (token_refresh_before_expiry // 60) before it is used.
should_refresh_token(window, has_creds, expires_at) ==
    \/ ~has_creds
    \/ LET minutes_before == window \div 60
       IN  \/ creds_is_expired(expires_at)
           \/ creds_is_expiring_soon(expires_at, minutes_before)

\* The inputs of the call.
InitToken ==
    /\ accounts = [i \in 1..Len(DispatchIds) |-> Account(DispatchIds[i])]
    /\ quota_cache = [id \in IdSet |-> NoQuota]
    /\ exceeded_records = [id \in IdSet |-> NoRecord]
    /\ now = 0
    /\ priority_accounts = <<>>
    /\ strategy = LOWEST_BALANCE
    /\ round_robin_index = 0
    /\ session_locks = [sid \in SessionIds |-> NoAccount]
    /\ session_timestamps = [sid \in SessionIds |-> 0]
    /\ last = NoCall
    /\ RefreshIdle
    /\ retry = NoRetry
    /\ auth = NoAuth
    /\ timer = NoTimer
    /\ sched = NoSched(accounts)
    /\ mark = NoMark(TRUE)
    /\ priority_file = NoFile
    /\ prio_call = NoPriorityCall
    /\ hist = NoHist
    /\ cache_file = NoFile
    /\ cache_call = NoCacheCall
    /\ disk = NoDisk
    /\ cfg_call = NoConfigCall
    /\ rr = NoRun
    /\ activity = NoActivity
    /\ creds = NoCredentials
    /\ auto = NoAuto
    /\ qtask = NoUpdateTask
    /\ \E w \in 0..MaxWindowSteps, has_creds \in BOOLEAN, e \in -2..MaxExpirySteps :
          tok = [NoTok EXCEPT !.window = w * TokenStep, !.has_creds = has_creds,
                              !.expires_at = IF has_creds THEN e * TokenStep ELSE 0]

\* should_refresh_token(account) is called.
ShouldRefreshToken ==
    /\ ~tok.applied
    /\ tok' = [tok EXCEPT !.applied = TRUE,
                          !.result = should_refresh_token(tok.window, tok.has_creds,
                                                          tok.expires_at)]
    /\ UNCHANGED <<accounts, last, retry, auth, timer, sched, mark, priority_file, prio_call, hist, cache_file, cache_call, disk, cfg_call, rr, activity, creds, auto, qtask>>
    /\ UNCHANGED selector_vars
    /\ UNCHANGED refresh_vars

NextToken == ShouldRefreshToken

SpecToken == InitToken /\ [][NextToken]_vars

\* C16: for every window w >= 0 in seconds, should_refresh_token holds iff
\* the account has no credential or expiresAt - now < w, an expired token
\* (expiresAt - now <= 0) needing a refresh whatever the window.
C16_ShouldRefreshIff ==
    tok.applied =>
        (tok.result <=>
            \/ ~tok.has_creds
            \/ tok.expires_at - now <= 0
            \/ tok.expires_at - now < tok.window)

\* A token that expires in 75 s with a window of 90 s is not refreshed: the
\* window has been cut to 60 s.
C16_Witness ==
    /\ tok.applied
    /\ tok.has_creds
    /\ tok.window = 90
    /\ tok.expires_at - now = 75
    /\ ~tok.result

\* ------------------------------------------------------------ quota scheduler
\* What get_account_usage hands back: a usage with a balance, a failure
\* (False, error), or an exception.
FetchOutcomes ==
    {[kind |-> "usage", balance |-> b] : b \in 0..MaxBalance}
        \cup {[kind |-> "error", balance |-> 0], [kind |-> "raise", balance |-> 0]}

\* The enabled flag after a successful fetch, under a scheduler that never
\* enables an account.
enabled_after_fetch_never_enables(enabled, quota) ==
    IF quota.is_exhausted THEN FALSE ELSE enabled

\* _refresh_account_internal, the success branch: an exhausted snapshot
\* disables an enabled account, any other snapshot enables a disabled one.
enabled_after_fetch(enabled, quota) ==
    IF quota.is_exhausted
    THEN IF enabled THEN FALSE ELSE enabled
    ELSE IF ~enabled THEN TRUE ELSE enabled

\* An origin after the scheduler has set the flag from was_enabled to enabled.
origin_after_fetch(origin, was_enabled, enabled) ==
    IF enabled = was_enabled THEN origin
    ELSE IF enabled THEN "none" ELSE "scheduler"

\* A pass of kind k starts over the accounts at the indexes ids.
StartPassOver(k, ids) ==
    /\ ~sched.running[k]
    /\ sched' = [sched EXCEPT !.running[k] = TRUE, !.pending[k] = ids,
                              !.step = NoSchedStep]
    /\ last' = NoCall
    /\ UNCHANGED accounts
    /\ UNCHANGED selector_vars
    /\ UNCHANGED refresh_vars
    /\ UNCHANGED <<retry, auth, timer, tok, mark, priority_file, prio_call, hist, cache_file, cache_call, disk, cfg_call, rr, activity, creds, auto, qtask>>

\* refresh_all (called by start and on demand) gathers a fetch for every
\* account, the disabled ones included.
RefreshAll == StartPassOver("all", 1..Len(accounts))

\* refresh_account(account_id) for the account at index i.
RefreshAccount(i) == StartPassOver("one", {i})

\* A round of _update_loop with the accounts at the indexes active in the
\* active window: it gathers a fetch for each of them.
UpdateLoopRound(active) ==
    /\ active # {}
    /\ StartPassOver("tick", active)

\* _refresh_account_internal for the account at index i, in the pass of kind
\* k, from the return of get_account_usage on.
RefreshAccountInternal(k, i, o) ==
    /\ sched.running[k]
    /\ i \in sched.pending[k]
    /\ LET acc == accounts[i]
           ok == o.kind = "usage"
           quota == IF ok THEN from_usage_info(o.balance) ELSE from_error
           enabled == IF ok THEN enabled_after_fetch(acc.enabled, quota)
                            ELSE acc.enabled
       IN /\ quota_cache' = [quota_cache EXCEPT ![acc.id] = quota]
          /\ accounts' = [accounts EXCEPT ![i].enabled = enabled]
          /\ sched' = [sched EXCEPT
                 !.pending[k] = @ \ {i},
                 !.success = IF k = "one" THEN ok ELSE @,
                 !.origin[acc.id] = origin_after_fetch(@, acc.enabled, enabled),
                 !.step = [op |-> "fetch", kind |-> k, i |-> i, ok |-> ok,
                           balance |-> o.balance, was_enabled |-> acc.enabled,
                           was_origin |-> sched.origin[acc.id],
                           outcome |-> o.kind, was_status |-> acc.status,
                           was_available |-> is_available(acc)]]
    /\ last' = NoCall
    /\ UNCHANGED <<exceeded_records, now, priority_accounts, strategy,
                   round_robin_index, session_locks, session_timestamps>>
    /\ UNCHANGED refresh_vars
    /\ UNCHANGED <<retry, auth, timer, tok, mark, priority_file, prio_call, hist, cache_file, cache_call, disk, cfg_call, rr, activity, creds, auto, qtask>>

\* The pass of kind k ends after its gather; saved tells whether it calls
\* _save_accounts_config.
EndPass(k, saved) ==
    /\ sched.running[k]
    /\ sched.pending[k] = {}
    /\ sched' = [sched EXCEPT
           !.running[k] = FALSE,
           !.stored = IF saved THEN accounts_data(accounts) ELSE @,
           !.step = [NoSchedStep EXCEPT !.op = "end", !.kind = k]]
    /\ last' = NoCall
    /\ UNCHANGED accounts
    /\ UNCHANGED selector_vars
    /\ UNCHANGED refresh_vars
    /\ UNCHANGED <<retry, auth, timer, tok, mark, priority_file, prio_call, hist, cache_file, cache_call, disk, cfg_call, rr, activity, creds, auto, qtask>>

\* refresh_all after its gather: it saves the cache and the account list.
RefreshAllEnd == EndPass("all", TRUE)

\* refresh_account after its fetch: it saves only when the fetch succeeded.
RefreshAccountEnd == EndPass("one", sched.success)

\* The round of _update_loop after its gather: it saves the cache only.
UpdateLoopRoundEnd == EndPass("tick", FALSE)

NextScheduler ==
    \/ \E i \in 1..Len(accounts) : ToggleAccount(i)
    \/ RefreshAll
    \/ \E i \in 1..Len(accounts) : RefreshAccount(i)
    \/ \E active \in SUBSET (1..Len(accounts)) : UpdateLoopRound(active)
    \/ \E k \in PassKinds, i \in 1..Len(accounts), o \in FetchOutcomes :
           RefreshAccountInternal(k, i, o)
    \/ RefreshAllEnd
    \/ RefreshAccountEnd
    \/ UpdateLoopRoundEnd

SpecScheduler == InitDispatch /\ [][NextScheduler]_vars

\* C17: after the scheduler has processed a successful usage fetch for an
\* account, the cache holds the snapshot of the fetched balance, which is
\* exhausted exactly when the balance is <= 0; an exhausted snapshot leaves
\* the account disabled; and an account that the scheduler had disabled for
\* exhaustion is enabled again by a fetch with a balance > 0.
C17_ExhaustedDisablesPositiveEnables ==
    (sched.step.op = "fetch" /\ sched.step.ok) =>
        LET acc == accounts[sched.step.i]
            quota == quota_cache[acc.id]
        IN /\ quota = from_usage_info(sched.step.balance)
           /\ quota.is_exhausted <=> sched.step.balance <= 0
           /\ quota.is_exhausted => ~acc.enabled
           /\ (/\ ~sched.step.was_enabled
               /\ sched.step.was_origin = "scheduler"
               /\ sched.step.balance > 0) => acc.enabled

\* An account the scheduler had disabled is enabled again by a positive fetch.
C17_Witness ==
    /\ sched.step.op = "fetch"
    /\ sched.step.ok
    /\ ~sched.step.was_enabled
    /\ sched.step.was_origin = "scheduler"
    /\ sched.step.balance > 0
    /\ accounts[sched.step.i].enabled
    /\ ~quota_cache[accounts[sched.step.i].id].is_exhausted

\* C18: the scheduler enables only accounts that it disabled itself: an
\* account that was disabled by another origin is still disabled after the
\* scheduler has processed a fetch for it, in a pass of any kind and with
\* any fetched balance.
C18_OnlyOwnDisablingUndone ==
    (/\ sched.step.op = "fetch"
     /\ ~sched.step.was_enabled
     /\ sched.step.was_origin # "scheduler") => ~accounts[sched.step.i].enabled

\* The scheduler has processed a positive fetch for an account that the
\* admin had disabled.
C18_Witness ==
    /\ sched.step.op = "fetch"
    /\ sched.step.ok
    /\ sched.step.balance > 0
    /\ ~sched.step.was_enabled
    /\ sched.step.was_origin = "admin"

\* C19: when a pass of the scheduler (a full refresh, a single-account
\* refresh or a round of the update loop) has run to its end, the enabled
\* flag saved for every account is its enabled flag in memory.
C19_SavedAfterEveryPass ==
    sched.step.op = "end" => sched.stored = accounts_data(accounts)

\* A full refresh has ended with a disabling of its own saved.
C19_Witness ==
    /\ sched.step.op = "end"
    /\ sched.step.kind = "all"
    /\ \E i \in 1..Len(accounts) :
           /\ ~accounts[i].enabled
           /\ sched.origin[accounts[i].id] = "scheduler"
           /\ ~sched.stored[i].enabled

\* ------------------------------------------------------- marking after a 429
\* RateLimiter.should_apply_quota_cooldown: the limiter's enabled switch.
should_apply_quota_cooldown == mark.enabled

\* RateLimiter.get_quota_cooldown_seconds.
get_quota_cooldown_seconds == QuotaCooldownSeconds

\* The status after Account.mark_quota_exceeded under a marking that sets
\* the status cooldown in both branches.
mark_status_always_cooldown(status, applied) == COOLDOWN

\* The status after Account.mark_quota_exceeded: cooldown when the cooldown
\* is applied, as it was otherwise.
mark_status(status, applied) == IF applied THEN COOLDOWN ELSE status

\* The rate limiter's configuration is updated: enabled or not.
SetRateLimit(enabled) ==
    /\ mark.enabled # enabled
    /\ mark' = [mark EXCEPT !.enabled = enabled]
    /\ last' = NoCall
    /\ UNCHANGED accounts
    /\ UNCHANGED selector_vars
    /\ UNCHANGED refresh_vars
    /\ UNCHANGED <<retry, auth, timer, tok, sched, priority_file, prio_call, hist, cache_file, cache_call, disk, cfg_call, rr, activity, creds, auto, qtask>>

\* Account.mark_quota_exceeded on the account at index i: with the cooldown
\* applied, a cooldown record, status cooldown and one more error; without
\* it, one more error and nothing else.
AccountMarkQuotaExceeded(i) ==
    LET acc == accounts[i] IN
    /\ mark.error_count[acc.id] < MaxErrors
    /\ exceeded_records' =
           IF should_apply_quota_cooldown
           THEN mark_exceeded(acc.id, get_quota_cooldown_seconds)
           ELSE exceeded_records
    /\ accounts' = [accounts EXCEPT
           ![i].status = mark_status(@, should_apply_quota_cooldown)]
    /\ mark' = [mark EXCEPT
           !.error_count[acc.id] = @ + 1,
           !.calls = (@ + 1) % 2,
           !.call = [i |-> i, limited |-> mark.enabled,
                     error_count |-> mark.error_count,
                     exceeded_records |-> exceeded_records,
                     status |-> acc.status, available |-> is_available(acc)]]
    /\ last' = NoCall
    /\ UNCHANGED <<quota_cache, now, priority_accounts, strategy,
                   round_robin_index, session_locks, session_timestamps>>
    /\ UNCHANGED refresh_vars
    /\ UNCHANGED <<retry, auth, timer, tok, sched, priority_file, prio_call, hist, cache_file, cache_call, disk, cfg_call, rr, activity, creds, auto, qtask>>

\* A mark call of ProxyState that names no account of the list: nothing is
\* marked.
MarkNothing ==
    /\ mark' = [mark EXCEPT !.call = NoMarkCall]
    /\ last' = NoCall
    /\ UNCHANGED accounts
    /\ UNCHANGED selector_vars
    /\ UNCHANGED refresh_vars
    /\ UNCHANGED <<retry, auth, timer, tok, sched, priority_file, prio_call, hist, cache_file, cache_call, disk, cfg_call, rr, activity, creds, auto, qtask>>

\* ProxyState.mark_rate_limited(account_id): the account of that id, when
\* there is one, is marked.
MarkRateLimited(account_id) ==
    IF \E i \in 1..Len(accounts) : accounts[i].id = account_id
    THEN \E i \in 1..Len(accounts) :
             accounts[i].id = account_id /\ AccountMarkQuotaExceeded(i)
    ELSE MarkNothing

\* ProxyState.mark_quota_exceeded(account_id): the account of that id, when
\* there is one, is marked.
StateMarkQuotaExceeded(account_id) ==
    IF \E i \in 1..Len(accounts) : accounts[i].id = account_id
    THEN \E i \in 1..Len(accounts) :
             accounts[i].id = account_id /\ AccountMarkQuotaExceeded(i)
    ELSE MarkNothing

NextMark ==
    \/ \E enabled \in BOOLEAN : SetRateLimit(enabled)
    \/ \E id \in IdSet : MarkRateLimited(id)
    \/ \E id \in IdSet : StateMarkQuotaExceeded(id)
    \/ \E i \in 1..Len(accounts) : RestoreAccount(i)
    \/ \E i \in 1..Len(accounts), success \in BOOLEAN : RefreshToken(i, success)
    \/ Tick(MaxMarkTicks)

SpecMark == InitDispatch /\ [][NextMark]_vars

\* What the last Account.mark_quota_exceeded call has left, against the
\* state it was made in.
MarkedAsClaimed ==
    LET c == mark.call
        acc == accounts[c.i]
    IN /\ mark.error_count =
              [c.error_count EXCEPT ![acc.id] = c.error_count[acc.id] + 1]
       /\ IF c.limited
          THEN /\ exceeded_records[acc.id] =
                      [present |-> TRUE, cooldown_until |-> now + QuotaCooldownSeconds]
               /\ acc.status = COOLDOWN
          ELSE /\ exceeded_records = c.exceeded_records
               /\ acc.status = c.status
               /\ is_available(acc) <=> c.available

\* C20: a mark of an account as rate-limited or quota-exceeded adds exactly
\* one to its error count (and to no other) in every case; with rate
\* limiting enabled it leaves a cooldown record of the configured length and
\* the status cooldown; with rate limiting disabled it leaves the cooldown
\* table and the status as they were, and the account as available as before.
C20_MarkCountsAndCoolsDownIffEnabled ==
    [][mark'.calls # mark.calls => MarkedAsClaimed']_vars

\* An available account has been marked with rate limiting disabled: its
\* error count is one higher and it is still available, with no record.
C20_Witness ==
    /\ mark.call.i # 0
    /\ ~mark.call.limited
    /\ mark.call.available
    /\ is_available(accounts[mark.call.i])
    /\ ~exceeded_records[accounts[mark.call.i].id].present
    /\ mark.error_count[accounts[mark.call.i].id] =
           mark.call.error_count[accounts[mark.call.i].id] + 1

\* ------------------------------------------------------ priority mutations
\* The ids of a list, as a set.
Ids(list) == {list[k] : k \in 1..Len(list)}

\* list.insert(position, id) for 0 <= position < len(list).
Insert(list, position, id) ==
    SubSeq(list, 1, position) \o <<id>> \o SubSeq(list, position + 1, Len(list))

\* list.remove(id): the list without the first occurrence of id.
Remove(list, id) ==
    LET k == CHOOSE j \in 1..Len(list) :
                 list[j] = id /\ \A h \in 1..(j - 1) : list[h] # id
    IN SubSeq(list, 1, k - 1) \o SubSeq(list, k + 1, Len(list))

\* What a mutation hands back: success or not, and the list it leaves.
Mutation(ok, list) == [ok |-> ok, list |-> list]

\* set_priority_accounts: refused when the valid ids are given (a non-empty
\* set) and some id of the list is not among them.
set_priority_result(list, account_ids, valid_account_ids) ==
    IF valid_account_ids # {} /\ \E k \in 1..Len(account_ids) :
           account_ids[k] \notin valid_account_ids
    THEN Mutation(FALSE, list)
    ELSE Mutation(TRUE, account_ids)

\* add_priority_account: refused when the valid ids are given (a non-empty
\* set) and the id is not among them, or when the id is in the list.
add_priority_account(list, account_id, position, valid_account_ids) ==
    IF valid_account_ids # {} /\ account_id \notin valid_account_ids
    THEN Mutation(FALSE, list)
    ELSE IF account_id \in Ids(list) THEN Mutation(FALSE, list)
    ELSE IF position < 0 \/ position >= Len(list)
         THEN Mutation(TRUE, Append(list, account_id))
         ELSE Mutation(TRUE, Insert(list, position, account_id))

\* remove_priority_account: refused when the id is not in the list.
remove_priority_account(list, account_id) ==
    IF account_id \notin Ids(list) THEN Mutation(FALSE, list)
    ELSE Mutation(TRUE, Remove(list, account_id))

\* reorder_priority: refused unless the new order names exactly the ids of
\* the list.
reorder_priority(list, account_ids) ==
    IF Ids(list) # Ids(account_ids) THEN Mutation(FALSE, list)
    ELSE Mutation(TRUE, account_ids)

\* The positions a caller passes to add_priority_account: -1 is the end.
Positions == -1..MaxPosition

\* The sets of valid ids a caller passes: sets of ids of accounts.
ValidSets == SUBSET {DispatchIds[i] : i \in 1..Len(DispatchIds)}

\* A mutation op with its arguments has returned r: a successful one has
\* replaced the list and saved the config.
Mutate(op, ids, position, valid, r) ==
    /\ priority_accounts' = r.list
    /\ priority_file' = IF r.ok THEN save_priority_config(r.list, strategy)
                                ELSE priority_file
    /\ prio_call' = [op |-> op, ok |-> r.ok, ids |-> ids, position |-> position,
                valid |-> valid, list |-> priority_accounts,
                file |-> priority_file]
    /\ last' = NoCall
    /\ UNCHANGED <<accounts, quota_cache, exceeded_records, now, strategy,
                   round_robin_index, session_locks, session_timestamps>>
    /\ UNCHANGED refresh_vars
    /\ UNCHANGED <<retry, auth, timer, tok, sched, mark, hist, cache_file, cache_call, disk, cfg_call, rr, activity, creds, auto, qtask>>

\* set_priority_accounts(account_ids, valid_account_ids) is called.
SetPriorityAccounts(account_ids, valid) ==
    Mutate("set", account_ids, -1, valid,
           set_priority_result(priority_accounts, account_ids, valid))

\* add_priority_account(account_id, position, valid_account_ids) is called.
AddPriorityAccount(account_id, position, valid) ==
    Mutate("add", <<account_id>>, position, valid,
           add_priority_account(priority_accounts, account_id, position, valid))

\* remove_priority_account(account_id) is called.
RemovePriorityAccount(account_id) ==
    Mutate("remove", <<account_id>>, -1, get_valid_account_ids,
           remove_priority_account(priority_accounts, account_id))

\* The admin handler reorder_priority_accounts: reorder_priority(account_ids)
\* is called; the enabled ids at the call are noted, the call is not given
\* them.
ReorderPriority(account_ids) ==
    Mutate("reorder", account_ids, -1, get_valid_account_ids,
           reorder_priority(priority_accounts, account_ids))

NextPriority ==
    \/ \E ids \in PriorityInputs, valid \in ValidSets : SetPriorityAccounts(ids, valid)
    \/ \E id \in IdSet, position \in Positions, valid \in ValidSets :
           AddPriorityAccount(id, position, valid)
    \/ \E id \in IdSet : RemovePriorityAccount(id)
    \/ \E ids \in PriorityInputs : ReorderPriority(ids)
    \/ \E i \in 1..Len(accounts) : ToggleAccount(i)

SpecPriority == InitDispatch /\ [][NextPriority]_vars

\* C21: add_priority_account(id, position, validIds) succeeds exactly when id
\* is in validIds and not in the priority list, for every validIds, the empty
\* set included; when it fails, the list in memory and the config on disk
\* are as they were.
C21_AddSucceedsIffValidAndNew ==
    prio_call.op = "add" =>
        /\ prio_call.ok <=> (prio_call.ids[1] \in prio_call.valid /\ prio_call.ids[1] \notin Ids(prio_call.list))
        /\ ~prio_call.ok => (priority_accounts = prio_call.list /\ priority_file = prio_call.file)

\* An add with an empty set of valid ids has returned.
C21_Witness ==
    /\ prio_call.op = "add"
    /\ prio_call.valid = {}
    /\ prio_call.ids[1] \notin Ids(prio_call.list)

\* C22: a Set, Add or Reorder that names an id outside the enabled ids
\* supplied by (or known to) the caller fails and leaves the list as it was,
\* and after a successful Set, Add or Reorder every id of the list is an
\* enabled id.
C22_MutationsValidateEveryId ==
    prio_call.op \in {"set", "add", "reorder"} =>
        /\ (\E k \in 1..Len(prio_call.ids) : prio_call.ids[k] \notin prio_call.valid) =>
               (~prio_call.ok /\ priority_accounts = prio_call.list)
        /\ prio_call.ok => Ids(priority_accounts) \subseteq prio_call.valid

\* A reorder has succeeded on a list that holds the id of a disabled account.
C22_Witness ==
    /\ prio_call.op = "reorder"
    /\ prio_call.ok
    /\ \E i \in 1..Len(accounts) :
           /\ ~accounts[i].enabled
           /\ accounts[i].id \notin prio_call.valid
           /\ accounts[i].id \in Ids(priority_accounts)

\* ------------------------------------------------------------ history manager
\* core/history_manager.py.  A history is a sequence of entries; an entry is
\* its role, the serialized length of the entry without its
\* userInputMessageContext, the toolUseIds of its toolUses (assistant) and the
\* toolUseIds of its toolResults (user).  The contents are ASCII, so that
\* json.dumps gives the same length with and without ensure_ascii.
AUTO_COMPRESS_THRESHOLD == 120000
SAFE_CHAR_LIMIT == 100000
MIN_KEEP_MESSAGES == 6
MAX_KEEP_MESSAGES == 20
SUMMARY_MAX_LENGTH == 3000
\* HistoryConfig.max_retries.
HistoryMaxRetries == 3
\* len(json.dumps(.)) of the two entries _build_compressed_history puts in
\* front, for an empty summary and the default model id.
SummaryUserChars == 161
SummaryAssistantChars == 103

ToolUseIds == {"t1"}

UserMsg(chars, results) ==
    [role |-> "user", chars |-> chars, uses |-> {}, results |-> results]

AssistantMsg(chars, uses) ==
    [role |-> "assistant", chars |-> chars, uses |-> uses, results |-> {}]

\* len(json.dumps(msg)).
msg_chars(msg) == msg.chars + ResultChars * Cardinality(msg.results)

RECURSIVE sum_chars(_)
sum_chars(history) ==
    IF history = <<>> THEN 0
    ELSE msg_chars(Head(history)) + 2 + sum_chars(Tail(history))

\* len(json.dumps(history)): the entries, ", " between them and the brackets.
dumps_len(history) == IF history = <<>> THEN 2 ELSE sum_chars(history)

\* history[-keep_count:] for keep_count > 0.
last_entries(history, keep_count) ==
    IF keep_count >= Len(history) THEN history
    ELSE SubSeq(history, Len(history) - keep_count + 1, Len(history))

\* The loop of _calculate_keep_count, from the newest entry backwards.
RECURSIVE keep_loop(_, _, _, _)
keep_loop(history, target_chars, total, count) ==
    IF count = Len(history) THEN count
    ELSE LET chars == msg_chars(history[Len(history) - count]) IN
         IF total + chars > target_chars /\ count >= MIN_KEEP_MESSAGES THEN count
         ELSE IF count + 1 >= MAX_KEEP_MESSAGES THEN count + 1
         ELSE keep_loop(history, target_chars, total + chars, count + 1)

calculate_keep_count(history, target_chars) ==
    LET count == keep_loop(history, target_chars, 0, 0)
        capped == IF count < Len(history) - 1 THEN count ELSE Len(history) - 1
    IN  IF capped > MIN_KEEP_MESSAGES THEN capped ELSE MIN_KEEP_MESSAGES

\* The toolUseIds of the assistant entries of a list.
tool_use_ids(list) ==
    UNION {list[i].uses : i \in {j \in DOMAIN list : list[j].role = "assistant"}}

\* The entries of recent_history as _build_compressed_history leaves them:
\* a leading assistant entry dropped, the context of a leading user entry
\* popped, the toolResults of the other user entries filtered.
clean_recent(recent_history) ==
    LET recent == IF recent_history # <<>> /\ recent_history[1].role = "assistant"
                  THEN Tail(recent_history) ELSE recent_history
        ids == tool_use_ids(recent)
    IN  [i \in DOMAIN recent |->
            IF recent[i].role # "user" THEN recent[i]
            ELSE IF i = 1 \/ ids = {} THEN [recent[i] EXCEPT !.results = {}]
            ELSE [recent[i] EXCEPT !.results = @ \cap ids]]

\* _build_compressed_history: the summary pair, then the cleaned entries.
build_compressed_history(summary, recent_history) ==
    <<UserMsg(SummaryUserChars + summary, {}), AssistantMsg(SummaryAssistantChars, {})>>
        \o clean_recent(recent_history)

\* _generate_summary on what the summarizer gave (0: nothing, or it raised).
generate_summary(raw) ==
    IF raw > SUMMARY_MAX_LENGTH THEN SUMMARY_MAX_LENGTH + 3 ELSE raw

RECURSIVE Pow(_, _)
Pow(base, n) == IF n = 0 THEN 1 ELSE base * Pow(base, n - 1)

\* int(target_chars * (0.8 ** retry_level)).
adjusted_target(target_chars, retry_level) ==
    (target_chars * Pow(8, retry_level)) \div Pow(10, retry_level)

\* int(SAFE_CHAR_LIMIT * (0.7 ** retry_count)): from retry_count 2 on the
\* float 0.7 ** retry_count lies just below the exact power, and int() rounds
\* the product down to one less than the exact value (48999 for 2).
error_target(retry_count) ==
    (SAFE_CHAR_LIMIT * Pow(7, retry_count)) \div Pow(10, retry_count)
        - (IF retry_count >= 2 THEN 1 ELSE 0)

\* What a smart_compress call leaves: what it returns, the flag, the way it
\* took, the cached summary and the caller's list, whose entries
\* _build_compressed_history changes in place; target is the adjusted
\* target of line 371 (0 when the call returns before computing it).
Compressed(result, truncated, source, cached, history) ==
    [result |-> result, truncated |-> truncated, source |-> source,
     cached |-> cached, history |-> history, target |-> 0]

\* smart_compress(history, api_caller, target_chars, retry_level) with the
\* flag as it stands, the summary the cache holds for the older part (0: none,
\* or no cache key) and what the summarizer gives.
smart_compress(history, target_chars, retry_level, truncated, cached, raw) ==
    IF history = <<>> THEN Compressed(history, truncated, "empty", cached, history)
    ELSE IF dumps_len(history) <= target_chars
    THEN Compressed(history, truncated, "fits", cached, history)
    ELSE
    LET target == adjusted_target(target_chars, retry_level)
        first == calculate_keep_count(history, target)
        fewer == IF Len(history) - 2 > MIN_KEEP_MESSAGES
                 THEN Len(history) - 2 ELSE MIN_KEEP_MESSAGES
        keep_count == IF first >= Len(history) THEN fewer ELSE first
        old_history == IF keep_count < Len(history)
                       THEN SubSeq(history, 1, Len(history) - keep_count) ELSE <<>>
        recent_history == last_entries(history, keep_count)
        summary == generate_summary(raw)
        cleaned == clean_recent(recent_history)
        changed == SubSeq(history, 1, Len(history) - Len(cleaned)) \o cleaned
        c == IF old_history = <<>>
             THEN Compressed(recent_history, truncated, "no_old", cached, history)
             ELSE IF cached > 0
             THEN Compressed(build_compressed_history(cached, recent_history), TRUE,
                             "cache", cached, changed)
             ELSE IF summary > 0
             THEN Compressed(build_compressed_history(summary, recent_history), TRUE,
                             "summary", summary, changed)
             ELSE Compressed(recent_history, TRUE, "fallback", cached, history)
    IN  [c EXCEPT !.target = target]

\* What the summary cache may hold for the older part, and what the
\* summarizer may give, in characters.
CachedSummaries == {0, SUMMARY_MAX_LENGTH}
RawSummaries == {0, SUMMARY_MAX_LENGTH + 1}

\* The histories handed in: plain user entries, short or huge, and
\* conversations in which user and assistant take turns, every entry of one
\* length, a user turn with or without a tool result and an assistant turn
\* with or without a tool use.
PlainEntries == {UserMsg(SmallChars, {}), UserMsg(HugeChars, {})}

ToolTurn(is_user, tools) ==
    IF is_user THEN UserMsg(TurnChars, tools) ELSE AssistantMsg(TurnChars, tools)

Conversation(n, user_first, tools) ==
    [i \in 1..n |-> ToolTurn((i % 2 = 1) = user_first, tools[i])]

Histories ==
    UNION {[1..n -> PlainEntries]
             \cup {Conversation(n, user_first, tools) :
                      user_first \in BOOLEAN, tools \in [1..n -> SUBSET ToolUseIds]} :
           n \in 0..MaxHistoryLen}

\* The record of a call.
HistoryCall(op, history, retry_count, api_caller, levels, c, result, should_retry) ==
    [op |-> op, history |-> history, retry_count |-> retry_count,
     api_caller |-> api_caller, levels |-> levels, source |-> c.source,
     compressed |-> c.result, cached |-> c.cached, after |-> c.history,
     truncated |-> c.truncated, result |-> result, should_retry |-> should_retry,
     target |-> c.target]

\* Neither compression nor truncation took place.
Untouched(history, truncated) == Compressed(history, truncated, "none", 0, history)

HistoryUnchanged ==
    UNCHANGED <<accounts, last, selector_vars, refresh_vars, retry, auth, timer,
                tok, sched, mark, priority_file, prio_call, cache_file, cache_call,
                disk, cfg_call, rr, activity, creds, auto, qtask>>

\* smart_compress on a manager just constructed, with the default target and
\* retry level.
SmartCompress(cached, raw) ==
    /\ hist.op = "input"
    /\ LET c == smart_compress(hist.history, SAFE_CHAR_LIMIT, 0, FALSE, cached, raw) IN
       hist' = HistoryCall("smart_compress", hist.history, 0, TRUE, <<0>>, c,
                           c.result, FALSE)
    /\ HistoryUnchanged

\* max(MIN_KEEP_MESSAGES, int(len(history) * (0.5 ** (retry_count + 1)))).
error_keep_count(history, retry_count) ==
    IF Len(history) \div Pow2(retry_count + 1) > MIN_KEEP_MESSAGES
    THEN Len(history) \div Pow2(retry_count + 1)
    ELSE MIN_KEEP_MESSAGES

\* handle_length_error_async(history, retry_count, api_caller).
HandleLengthErrorAsync(retry_count, api_caller, cached, raw) ==
    /\ hist.op = "input"
    /\ LET history == hist.history
           keep_count == error_keep_count(history, retry_count)
           c == smart_compress(history, error_target(retry_count), retry_count,
                               FALSE, cached, raw)
       IN  hist' =
             IF retry_count >= HistoryMaxRetries \/ history = <<>>
             THEN HistoryCall("handle_length_error_async", history, retry_count,
                              api_caller, <<>>, Untouched(history, FALSE), history, FALSE)
             ELSE IF api_caller
             THEN IF Len(c.result) < Len(history)
                  THEN HistoryCall("handle_length_error_async", history, retry_count,
                                   TRUE, <<retry_count>>, c, c.result, TRUE)
                  ELSE HistoryCall("handle_length_error_async", history, retry_count,
                                   TRUE, <<retry_count>>, c, c.history, FALSE)
             ELSE IF keep_count < Len(history)
             THEN HistoryCall("handle_length_error_async", history, retry_count,
                              FALSE, <<>>, Untouched(history, TRUE),
                              last_entries(history, keep_count), TRUE)
             ELSE HistoryCall("handle_length_error_async", history, retry_count,
                              FALSE, <<>>, Untouched(history, FALSE), history, FALSE)
    /\ HistoryUnchanged

\* handle_length_error(history, retry_count).
HandleLengthError(retry_count) ==
    /\ hist.op = "input"
    /\ LET history == hist.history
           keep_count == error_keep_count(history, retry_count)
       IN  hist' =
             IF retry_count >= HistoryMaxRetries \/ history = <<>>
             THEN HistoryCall("handle_length_error", history, retry_count, FALSE,
                              <<>>, Untouched(history, FALSE), history, FALSE)
             ELSE IF keep_count < Len(history)
             THEN HistoryCall("handle_length_error", history, retry_count, FALSE,
                              <<>>, Untouched(history, TRUE),
                              last_entries(history, keep_count), TRUE)
             ELSE HistoryCall("handle_length_error", history, retry_count, FALSE,
                              <<>>, Untouched(history, FALSE), history, FALSE)
    /\ HistoryUnchanged

\* The history a call is given.
InitHistory ==
    /\ accounts = [i \in 1..Len(DispatchIds) |-> Account(DispatchIds[i])]
    /\ quota_cache = [id \in IdSet |-> NoQuota]
    /\ exceeded_records = [id \in IdSet |-> NoRecord]
    /\ now = 0
    /\ priority_accounts = <<>>
    /\ strategy = LOWEST_BALANCE
    /\ round_robin_index = 0
    /\ session_locks = [sid \in SessionIds |-> NoAccount]
    /\ session_timestamps = [sid \in SessionIds |-> 0]
    /\ last = NoCall
    /\ RefreshIdle
    /\ retry = NoRetry
    /\ auth = NoAuth
    /\ timer = NoTimer
    /\ tok = NoTok
    /\ sched = NoSched(accounts)
    /\ mark = NoMark(TRUE)
    /\ priority_file = NoFile
    /\ prio_call = NoPriorityCall
    /\ cache_file = NoFile
    /\ cache_call = NoCacheCall
    /\ disk = NoDisk
    /\ cfg_call = NoConfigCall
    /\ rr = NoRun
    /\ activity = NoActivity
    /\ creds = NoCredentials
    /\ auto = NoAuto
    /\ qtask = NoUpdateTask
    /\ \E history \in Histories :
          hist = HistoryCall("input", history, 0, FALSE, <<>>,
                             Untouched(history, FALSE), history, FALSE)

NextHistory ==
    \/ \E cached \in CachedSummaries, raw \in RawSummaries : SmartCompress(cached, raw)
    \/ \E retry_count \in 0..MaxRetryCount, api_caller \in BOOLEAN,
          cached \in CachedSummaries, raw \in RawSummaries :
          HandleLengthErrorAsync(retry_count, api_caller, cached, raw)
    \/ \E retry_count \in 0..MaxRetryCount : HandleLengthError(retry_count)

SpecHistory == InitHistory /\ [][NextHistory]_vars

\* C23: for every history whose serialized length exceeds 120 000
\* characters, the history smart_compress returns has a serialized length of
\* at most 120 000, or else the truncated flag of the manager is set.
C23_CompressedFitsOrFlagged ==
    (hist.op = "smart_compress" /\ dumps_len(hist.history) > AUTO_COMPRESS_THRESHOLD) =>
        \/ dumps_len(hist.result) <= AUTO_COMPRESS_THRESHOLD
        \/ hist.truncated

\* A history of seven entries, the oldest one huge, is compressed to the
\* summary and the six recent entries: it fits and the flag is set.
C23_Witness ==
    /\ hist.op = "smart_compress"
    /\ dumps_len(hist.history) > AUTO_COMPRESS_THRESHOLD
    /\ hist.source = "summary"
    /\ Len(hist.result) = MIN_KEEP_MESSAGES + 2
    /\ dumps_len(hist.result) <= AUTO_COMPRESS_THRESHOLD
    /\ hist.truncated

\* The entries of the kept window of what a compression returned: the
\* entries after the summary pair, or all of them when no summary was put in
\* front.
KeptWindow ==
    IF hist.source \in {"cache", "summary"}
    THEN SubSeq(hist.compressed, 3, Len(hist.compressed))
    ELSE hist.compressed

UserTurns(list) == {i \in DOMAIN list : list[i].role = "user"}

\* C24: in every history a compression returns (summary built, summary from
\* the cache, summarizer gave nothing, no older part), no user turn carries a
\* toolResults entry whose toolUseId is not that of a tool use of an assistant
\* turn of the kept window, and the first kept user turn carries no tool
\* results.
C24_NoOrphanToolResults ==
    hist.source \in {"cache", "summary", "fallback", "no_old"} =>
        /\ \A i \in UserTurns(KeptWindow) :
              KeptWindow[i].results \subseteq tool_use_ids(KeptWindow)
        /\ \A i \in UserTurns(KeptWindow) :
              (\A j \in UserTurns(KeptWindow) : i <= j) => KeptWindow[i].results = {}

\* A summary is built in front of a window whose first user turn carried the
\* result of a tool use of the summarized part: the result is gone.
C24_Witness ==
    /\ hist.op = "smart_compress"
    /\ hist.source = "summary"
    /\ hist.history[1].uses # {}
    /\ hist.history[2].results # {}
    /\ \A i \in DOMAIN hist.history : i > 2 => hist.history[i].uses = {}
    /\ KeptWindow[1].role = "user"
    /\ \A i \in UserTurns(KeptWindow) : KeptWindow[i].results = {}

\* The summarizer gives nothing and the window is returned as it is: its
\* first user turn still carries the result of a tool use of the dropped part.
C24_FallbackKeepsOrphan ==
    /\ hist.op = "smart_compress"
    /\ hist.source = "fallback"
    /\ hist.truncated
    /\ tool_use_ids(KeptWindow) = {}
    /\ KeptWindow[1].role = "user"
    /\ KeptWindow[1].results # {}

\* C25: a length-error handler returns the history unchanged with
\* should_retry false whenever retry_count >= max_retries, and for every
\* non-empty history with retry_count < max_retries it runs the compression at
\* retry level retry_count and returns what that gave with should_retry true.
C25_LengthErrorCompressesBelowMax ==
    hist.op \in {"handle_length_error", "handle_length_error_async"} =>
        /\ hist.retry_count >= HistoryMaxRetries =>
              /\ hist.result = hist.history
              /\ ~hist.should_retry
              /\ hist.levels = <<>>
        /\ (hist.history # <<>> /\ hist.retry_count < HistoryMaxRetries) =>
              /\ hist.should_retry
              /\ hist.api_caller =>
                    /\ hist.levels = <<hist.retry_count>>
                    /\ hist.result = hist.compressed

\* On the second overrun the asynchronous handler compresses at level 1 and
\* asks for a retry with a shorter history.
C25_Witness ==
    /\ hist.op = "handle_length_error_async"
    /\ hist.api_caller
    /\ hist.retry_count = 1
    /\ hist.levels = <<1>>
    /\ hist.source = "summary"
    /\ hist.should_retry
    /\ hist.result = hist.compressed
    /\ Len(hist.result) < Len(hist.history)

\* At max_retries the handlers give the history back and ask for no retry.
C25_StopsAtMaxRetries ==
    /\ hist.op \in {"handle_length_error", "handle_length_error_async"}
    /\ hist.retry_count = HistoryMaxRetries
    /\ hist.history # <<>>
    /\ hist.result = hist.history
    /\ ~hist.should_retry

\* ------------------------------------------------------------ CachedQuota
\* core/quota_cache.py.  A snapshot with every field that
\* _update_balance_status reads or writes, the id and updated_at; the other
\* fields (usages, limits, title) are carried like updated_at.
\* LOW_BALANCE_THRESHOLD * 100.
LOW_BALANCE_PERCENT == 20
\* Python None in the error field.
NoError == "None"

NORMAL == "normal"
LOW == "low"
EXHAUSTED == "exhausted"

WithStatus(quota, balance_status, is_low_balance, is_exhausted) ==
    [quota EXCEPT !.balance_status = balance_status,
                  !.is_low_balance = is_low_balance,
                  !.is_exhausted = is_exhausted]

\* _update_balance_status with `remaining_percent < threshold`.
update_balance_status_strict(quota) ==
    IF quota.error # NoError THEN quota
    ELSE IF quota.balance <= 0 THEN WithStatus(quota, EXHAUSTED, FALSE, TRUE)
    ELSE IF quota.usage_limit > 0
    THEN IF quota.balance * 100 < LOW_BALANCE_PERCENT * quota.usage_limit
         THEN WithStatus(quota, LOW, TRUE, FALSE)
         ELSE WithStatus(quota, NORMAL, FALSE, FALSE)
    ELSE WithStatus(quota, NORMAL, FALSE, FALSE)

\* _update_balance_status without its early return for a snapshot with an
\* error.
update_balance_status_despite_error(quota) ==
    IF quota.balance <= 0 THEN WithStatus(quota, EXHAUSTED, FALSE, TRUE)
    ELSE IF quota.usage_limit > 0
    THEN IF quota.balance * 100 <= LOW_BALANCE_PERCENT * quota.usage_limit
         THEN WithStatus(quota, LOW, TRUE, FALSE)
         ELSE WithStatus(quota, NORMAL, FALSE, FALSE)
    ELSE WithStatus(quota, NORMAL, FALSE, FALSE)

\* CachedQuota._update_balance_status: (balance / usage_limit) * 100 against
\* LOW_BALANCE_THRESHOLD * 100.
update_balance_status(quota) ==
    IF quota.error # NoError THEN quota
    ELSE IF quota.balance <= 0 THEN WithStatus(quota, EXHAUSTED, FALSE, TRUE)
    ELSE IF quota.usage_limit > 0
    THEN IF quota.balance * 100 <= LOW_BALANCE_PERCENT * quota.usage_limit
         THEN WithStatus(quota, LOW, TRUE, FALSE)
         ELSE WithStatus(quota, NORMAL, FALSE, FALSE)
    ELSE WithStatus(quota, NORMAL, FALSE, FALSE)

\* CachedQuota(...): the dataclass fields as given, then __post_init__.
CachedQuota(args) == update_balance_status([args EXCEPT !.present = TRUE])

\* CachedQuota.is_available.
quota_is_available(quota) == ~quota.is_exhausted /\ quota.error = NoError

UsageLimits == {LimitStep * k : k \in 0..MaxLimitSteps}
QuotaBalances == -1..MaxQuotaBalance
QuotaErrors == {NoError, "timeout"}

\* The arguments a CachedQuota is constructed with.
QuotaArgs ==
    [present : {TRUE}, account_id : {"a"}, usage_limit : UsageLimits,
     balance : QuotaBalances, balance_status : {NORMAL, LOW, EXHAUSTED},
     is_low_balance : BOOLEAN, is_exhausted : BOOLEAN, updated_at : {0},
     error : QuotaErrors]

Construct ==
    /\ cache_call.op = "args"
    /\ cache_call' = [op |-> "CachedQuota", args |-> cache_call.args,
                      quota |-> CachedQuota(cache_call.args)]
    /\ UNCHANGED <<accounts, last, selector_vars, refresh_vars, retry, auth, timer,
                   tok, sched, mark, priority_file, prio_call, hist, cache_file,
                   disk, cfg_call, rr, activity, creds, auto, qtask>>

InitQuota ==
    /\ accounts = [i \in 1..Len(DispatchIds) |-> Account(DispatchIds[i])]
    /\ quota_cache = [id \in IdSet |-> NoQuota]
    /\ exceeded_records = [id \in IdSet |-> NoRecord]
    /\ now = 0
    /\ priority_accounts = <<>>
    /\ strategy = LOWEST_BALANCE
    /\ round_robin_index = 0
    /\ session_locks = [sid \in SessionIds |-> NoAccount]
    /\ session_timestamps = [sid \in SessionIds |-> 0]
    /\ last = NoCall
    /\ RefreshIdle
    /\ retry = NoRetry
    /\ auth = NoAuth
    /\ timer = NoTimer
    /\ tok = NoTok
    /\ sched = NoSched(accounts)
    /\ mark = NoMark(TRUE)
    /\ priority_file = NoFile
    /\ prio_call = NoPriorityCall
    /\ hist = NoHist
    /\ cache_file = NoFile
    /\ disk = NoDisk
    /\ cfg_call = NoConfigCall
    /\ rr = NoRun
    /\ activity = NoActivity
    /\ creds = NoCredentials
    /\ auto = NoAuto
    /\ qtask = NoUpdateTask
    /\ \E args \in QuotaArgs : cache_call = [op |-> "args", args |-> args]

NextQuota == Construct

SpecQuota == InitQuota /\ [][NextQuota]_vars

\* C27: for every error-free snapshot with usage_limit > 0: balance <= 0
\* gives status exhausted, is_exhausted, not is_low_balance and not available;
\* otherwise balance / usage_limit <= 0.20, the boundary included, gives status
\* low, is_low_balance, not is_exhausted and available; otherwise status normal,
\* neither flag and available.
C27_BalanceStatus ==
    (/\ cache_call.op = "CachedQuota"
     /\ cache_call.quota.error = NoError
     /\ cache_call.quota.usage_limit > 0) =>
        LET quota == cache_call.quota IN
        /\ quota.balance = cache_call.args.balance
        /\ quota.usage_limit = cache_call.args.usage_limit
        /\ IF quota.balance <= 0
           THEN /\ quota.balance_status = EXHAUSTED
                /\ quota.is_exhausted
                /\ ~quota.is_low_balance
                /\ ~quota_is_available(quota)
           ELSE IF 5 * quota.balance <= quota.usage_limit
           THEN /\ quota.balance_status = LOW
                /\ quota.is_low_balance
                /\ ~quota.is_exhausted
                /\ quota_is_available(quota)
           ELSE /\ quota.balance_status = NORMAL
                /\ ~quota.is_low_balance
                /\ ~quota.is_exhausted
                /\ quota_is_available(quota)

\* A snapshot at the boundary, balance 1 of a limit of 5, constructed with the
\* flags of an exhausted one: its status is low.
C27_Witness ==
    /\ cache_call.op = "CachedQuota"
    /\ cache_call.args.is_exhausted
    /\ cache_call.args.balance_status = EXHAUSTED
    /\ cache_call.quota.error = NoError
    /\ cache_call.quota.balance > 0
    /\ 5 * cache_call.quota.balance = cache_call.quota.usage_limit
    /\ cache_call.quota.balance_status = LOW
    /\ cache_call.quota.is_low_balance
    /\ ~cache_call.quota.is_exhausted

\* ------------------------------------------------------------ QuotaCache
\* The cache under test is quota_cache; its file is cache_file: whether it
\* exists, whether it parses as JSON and the entries of its "accounts"
\* object, in file order.
CacheKeys == {"a", "b"}

\* The snapshots the cache is given.
CacheSnapshots ==
    {CachedQuota([present |-> TRUE, account_id |-> id, usage_limit |-> LimitStep,
                  balance |-> balance, balance_status |-> NORMAL,
                  is_low_balance |-> FALSE, is_exhausted |-> FALSE,
                  updated_at |-> 0, error |-> NoError]) :
        id \in CacheKeys, balance \in {0, 1}}
    \cup {CachedQuota([present |-> TRUE, account_id |-> "a", usage_limit |-> 0,
                       balance |-> 0, balance_status |-> NORMAL,
                       is_low_balance |-> FALSE, is_exhausted |-> FALSE,
                       updated_at |-> 0, error |-> "timeout"])}

EmptyCache == [id \in IdSet |-> NoQuota]

\* save_to_file on one entry: to_dict without the account_id.
quota_dict(quota) ==
    [usage_limit |-> quota.usage_limit, balance |-> quota.balance,
     balance_status |-> quota.balance_status,
     is_low_balance |-> quota.is_low_balance, is_exhausted |-> quota.is_exhausted,
     updated_at |-> quota.updated_at, error |-> quota.error]

\* An entry of the "accounts" object of a file: its key and a well-formed
\* quota object, or something that is no quota object.
FileEntry(key, quota) == [key |-> key, well_formed |-> TRUE, data |-> quota_dict(quota)]
MalformedEntry(key) == [key |-> key, well_formed |-> FALSE]

\* load_from_file on one entry: the key becomes the account_id, then from_dict.
from_dict(key, data) ==
    CachedQuota([present |-> TRUE, account_id |-> key,
                 usage_limit |-> data.usage_limit, balance |-> data.balance,
                 balance_status |-> data.balance_status,
                 is_low_balance |-> data.is_low_balance,
                 is_exhausted |-> data.is_exhausted,
                 updated_at |-> data.updated_at, error |-> data.error])

\* The file save_to_file writes: the entries of the cache.
saved_file(cache) ==
    LET keys == SelectSeq(AccountIds, LAMBDA id : cache[id].present) IN
    [exists |-> TRUE, parsable |-> TRUE,
     accounts |-> [i \in DOMAIN keys |-> FileEntry(keys[i], cache[keys[i]])]]

\* The loop of load_from_file over the entries, the cache cleared before it:
\* an entry that is no quota object raises, and the except clause returns
\* False with the entries stored so far.
RECURSIVE load_entries(_, _)
load_entries(entries, cache) ==
    IF entries = <<>> THEN [ok |-> TRUE, cache |-> cache]
    ELSE IF ~Head(entries).well_formed THEN [ok |-> FALSE, cache |-> cache]
    ELSE load_entries(Tail(entries),
                      [cache EXCEPT ![Head(entries).key] =
                           from_dict(Head(entries).key, Head(entries).data)])

\* load_from_file: what it returns and the cache it leaves.
load_from_file(file, cache) ==
    IF ~file.exists THEN [ok |-> FALSE, cache |-> cache]
    ELSE IF ~file.parsable THEN [ok |-> FALSE, cache |-> cache]
    ELSE load_entries(file.accounts, EmptyCache)

\* Files that no save wrote: truncated JSON, and "accounts" objects with an
\* entry that is a string instead of an object.
GoodQuota == CHOOSE quota \in CacheSnapshots : quota.account_id = "a" /\ quota.balance = 1
BadFiles ==
    {[exists |-> TRUE, parsable |-> FALSE, accounts |-> <<>>],
     [exists |-> TRUE, parsable |-> TRUE, accounts |-> <<MalformedEntry("a")>>],
     [exists |-> TRUE, parsable |-> TRUE,
      accounts |-> <<FileEntry("a", GoodQuota), MalformedEntry("b")>>]}

IsBadFile(file) ==
    \/ ~file.exists
    \/ ~file.parsable
    \/ \E i \in DOMAIN file.accounts : ~file.accounts[i].well_formed

CacheUnchanged ==
    UNCHANGED <<accounts, last, exceeded_records, now, priority_accounts, strategy,
                round_robin_index, session_locks, session_timestamps, refresh_vars,
                retry, auth, timer, tok, sched, mark, priority_file, prio_call,
                hist, disk, cfg_call, rr, activity, creds, auto, qtask>>

\* QuotaCache.set(account_id, quota).
CacheSet(account_id, quota) ==
    /\ quota_cache' = [quota_cache EXCEPT ![account_id] = quota]
    /\ cache_call' = [op |-> "set", id |-> account_id, quota |-> quota]
    /\ UNCHANGED cache_file
    /\ CacheUnchanged

\* QuotaCache.get(account_id); the call keeps what a set of the same id,
\* made just before, was given.
CacheGet(account_id) ==
    /\ LET after_set == cache_call.op = "set" /\ cache_call.id = account_id IN
       cache_call' = [op |-> "get", id |-> account_id,
                      quota |-> quota_cache[account_id], after_set |-> after_set,
                      given |-> IF after_set THEN cache_call.quota ELSE NoQuota]
    /\ UNCHANGED <<quota_cache, cache_file>>
    /\ CacheUnchanged

\* QuotaCache.remove(account_id).
CacheRemove(account_id) ==
    /\ quota_cache' = [quota_cache EXCEPT ![account_id] = NoQuota]
    /\ cache_call' = [op |-> "remove", id |-> account_id]
    /\ UNCHANGED cache_file
    /\ CacheUnchanged

\* QuotaCache.clear().
CacheClear ==
    /\ quota_cache' = EmptyCache
    /\ cache_call' = [op |-> "clear"]
    /\ UNCHANGED cache_file
    /\ CacheUnchanged

\* QuotaCache.save_to_file(): the file is replaced, or writing fails and the
\* call returns False.
SaveToFile(ok) ==
    /\ cache_file' = IF ok THEN saved_file(quota_cache) ELSE cache_file
    /\ cache_call' = [op |-> "save_to_file", ok |-> ok]
    /\ UNCHANGED quota_cache
    /\ CacheUnchanged

\* QuotaCache(cache_file): a fresh cache, then load_from_file.  The call
\* keeps whether the file was saved just before, and the cache it was saved from.
NewCache ==
    /\ LET loaded == load_from_file(cache_file, EmptyCache) IN
       /\ quota_cache' = loaded.cache
       /\ cache_call' = [op |-> "load_fresh", ok |-> loaded.ok,
                         after_save |-> cache_call.op = "save_to_file" /\ cache_call.ok,
                         saved |-> quota_cache]
    /\ UNCHANGED cache_file
    /\ CacheUnchanged

\* Something other than save_to_file writes the file.
FileWritten(file) ==
    /\ cache_file' = file
    /\ cache_call' = [op |-> "file_written"]
    /\ UNCHANGED quota_cache
    /\ CacheUnchanged

InitCache ==
    /\ accounts = [i \in 1..Len(DispatchIds) |-> Account(DispatchIds[i])]
    /\ quota_cache = EmptyCache
    /\ exceeded_records = [id \in IdSet |-> NoRecord]
    /\ now = 0
    /\ priority_accounts = <<>>
    /\ strategy = LOWEST_BALANCE
    /\ round_robin_index = 0
    /\ session_locks = [sid \in SessionIds |-> NoAccount]
    /\ session_timestamps = [sid \in SessionIds |-> 0]
    /\ last = NoCall
    /\ RefreshIdle
    /\ ServiceIdle

NextCache ==
    \/ \E id \in CacheKeys, quota \in CacheSnapshots : CacheSet(id, quota)
    \/ \E id \in CacheKeys : CacheGet(id)
    \/ \E id \in CacheKeys : CacheRemove(id)
    \/ CacheClear
    \/ \E ok \in BOOLEAN : SaveToFile(ok)
    \/ NewCache
    \/ \E file \in BadFiles \cup {NoFile} : FileWritten(file)

SpecCache == InitCache /\ [][NextCache]_vars

C26_KeyReplacesAccountId ==
    /\ cache_call.op = "load_fresh"
    /\ cache_call.after_save
    /\ cache_call.saved["a"].present
    /\ cache_call.saved["a"].account_id = "b"
    /\ quota_cache["a"].account_id = "a"

\* C30: constructing a cache on a missing file, an unparsable file or a
\* parsable file with a malformed account entry never raises: the load
\* reports failure and the cache is empty.
C30_BadFileLeavesCacheEmpty ==
    (cache_call.op = "load_fresh" /\ IsBadFile(cache_file)) =>
        /\ ~cache_call.ok
        /\ quota_cache = EmptyCache

\* A cache constructed on a file that is no JSON: the load fails and the
\* cache is empty, whatever the cache that was there before held.
C30_Witness ==
    /\ cache_call.op = "load_fresh"
    /\ cache_file.exists
    /\ ~cache_file.parsable
    /\ cache_call.saved # EmptyCache
    /\ ~cache_call.ok
    /\ quota_cache = EmptyCache

\* The file's first entry is a quota object and its second is not: the load
\* fails and the cache holds the first entry.
C30_EntryBeforeMalformedStays ==
    /\ cache_call.op = "load_fresh"
    /\ IsBadFile(cache_file)
    /\ ~cache_call.ok
    /\ quota_cache["a"].present

\* ------------------------------------------------------------ persisted files
\* The saves of the persisted files.  The content of a file is 0 (no file),
\* Partial (opened for writing, not yet complete) or the number of the save
\* that wrote it completely.
Partial == -1

\* quota_cache.json (QuotaCache.save_to_file), priority.json
\* (AccountSelector._save_priority_config) and a token file
\* (save_credentials_to_file).
SavedFiles == {"quota_cache", "priority", "token"}

\* The files written to a temp file that then replaces the target; a token
\* file is opened and written in place.
WrittenViaTemp == {"quota_cache", "priority"}

NoSave == [target |-> 0, temp |-> 0, pc |-> "idle", old |-> 0, new |-> 0]

SaveUnchanged ==
    UNCHANGED <<accounts, last, selector_vars, refresh_vars, retry, auth, timer,
                tok, sched, mark, priority_file, prio_call, hist, cache_file,
                cache_call, cfg_call, rr, activity, creds, auto, qtask>>

\* open(temp_file, 'w'): the temp file exists, empty.
OpenTemp(file) ==
    /\ file \in WrittenViaTemp
    /\ disk[file].pc = "idle"
    /\ disk[file].new < MaxSaves
    /\ disk' = [disk EXCEPT ![file] = [@ EXCEPT !.pc = "temp_open", !.temp = Partial,
                                                 !.old = disk[file].target,
                                                 !.new = disk[file].new + 1]]
    /\ SaveUnchanged

\* json.dump(data, f) and the end of the with block: the temp file is complete.
WriteTemp(file) ==
    /\ disk[file].pc = "temp_open"
    /\ disk' = [disk EXCEPT ![file] = [@ EXCEPT !.pc = "temp_written",
                                                 !.temp = disk[file].new]]
    /\ SaveUnchanged

\* temp_file.replace(target).
ReplaceTarget(file) ==
    /\ disk[file].pc = "temp_written"
    /\ disk' = [disk EXCEPT ![file] = [@ EXCEPT !.pc = "idle",
                                                 !.target = disk[file].temp,
                                                 !.temp = 0]]
    /\ SaveUnchanged

\* open(file_path, "w") of save_credentials_to_file: the target is truncated.
OpenTarget(file) ==
    /\ file \notin WrittenViaTemp
    /\ disk[file].pc = "idle"
    /\ disk[file].new < MaxSaves
    /\ disk' = [disk EXCEPT ![file] = [@ EXCEPT !.pc = "target_open",
                                                 !.target = Partial,
                                                 !.old = disk[file].target,
                                                 !.new = disk[file].new + 1]]
    /\ SaveUnchanged

\* json.dump(credentials, f) and the end of the with block.
WriteTarget(file) ==
    /\ disk[file].pc = "target_open"
    /\ disk' = [disk EXCEPT ![file] = [@ EXCEPT !.pc = "idle",
                                                 !.target = disk[file].new]]
    /\ SaveUnchanged

\* The save is interrupted where it stands: the files stay as they are.
Interrupt(file) ==
    /\ disk[file].pc # "idle"
    /\ disk' = [disk EXCEPT ![file] = [@ EXCEPT !.pc = "idle"]]
    /\ SaveUnchanged

InitSave ==
    /\ accounts = [i \in 1..Len(DispatchIds) |-> Account(DispatchIds[i])]
    /\ quota_cache = [id \in IdSet |-> NoQuota]
    /\ exceeded_records = [id \in IdSet |-> NoRecord]
    /\ now = 0
    /\ priority_accounts = <<>>
    /\ strategy = LOWEST_BALANCE
    /\ round_robin_index = 0
    /\ session_locks = [sid \in SessionIds |-> NoAccount]
    /\ session_timestamps = [sid \in SessionIds |-> 0]
    /\ last = NoCall
    /\ RefreshIdle
    /\ retry = NoRetry
    /\ auth = NoAuth
    /\ timer = NoTimer
    /\ tok = NoTok
    /\ sched = NoSched(accounts)
    /\ mark = NoMark(TRUE)
    /\ priority_file = NoFile
    /\ prio_call = NoPriorityCall
    /\ hist = NoHist
    /\ cache_file = NoFile
    /\ cache_call = NoCacheCall
    /\ cfg_call = NoConfigCall
    /\ disk = [file \in SavedFiles |-> NoSave]
    /\ rr = NoRun
    /\ activity = NoActivity
    /\ creds = NoCredentials
    /\ auto = NoAuto
    /\ qtask = NoUpdateTask

NextSave ==
    \/ \E file \in SavedFiles : OpenTemp(file)
    \/ \E file \in SavedFiles : WriteTemp(file)
    \/ \E file \in SavedFiles : ReplaceTarget(file)
    \/ \E file \in SavedFiles : OpenTarget(file)
    \/ \E file \in SavedFiles : WriteTarget(file)
    \/ \E file \in SavedFiles : Interrupt(file)

SpecSave == InitSave /\ [][NextSave]_vars

\* C28: for every persisted file, whatever the point at which a save is
\* interrupted, the target holds the complete previous content or the complete
\* new content, and is never seen partially written.
C28_TargetAlwaysComplete ==
    \A file \in SavedFiles :
        /\ disk[file].target # Partial
        /\ disk[file].target \in {disk[file].old, disk[file].new}

\* The second save of the quota cache is interrupted after the temp file is
\* written and before the rename: the target still holds the first save.
C28_Witness ==
    /\ disk["quota_cache"].pc = "idle"
    /\ disk["quota_cache"].new = 2
    /\ disk["quota_cache"].temp = 2
    /\ disk["quota_cache"].target = 1

\* The second save of a token file is interrupted between open and the end of
\* the write: the file is left partially written, the first content lost.
C28_TokenFileLeftPartial ==
    /\ disk["token"].pc = "idle"
    /\ disk["token"].old = 1
    /\ disk["token"].new = 2
    /\ disk["token"].target = Partial

\* ------------------------------------------------------------ update_config
\* RefreshConfig as constructed without arguments.
DefaultRefreshConfig ==
    [max_retries |-> 3, retry_base_delay |-> 1, concurrency |-> 3,
     token_refresh_before_expiry |-> 300, auto_refresh_interval |-> 60]

ConfigFields == DOMAIN DefaultRefreshConfig

\* The values an update gives a field: on both sides of every limit of validate().
ConfigValues == {-1, 0, 1}

\* The keyword arguments of an update_config call.
ConfigKwargs ==
    UNION {[fields -> ConfigValues] :
             fields \in {names \in SUBSET ConfigFields : Cardinality(names) <= MaxKwargs}}

\* RefreshConfig.validate() without the test of auto_refresh_interval.
validate_without_interval(c) ==
    /\ ~(c.max_retries < 0)
    /\ ~(c.retry_base_delay <= 0)
    /\ ~(c.concurrency < 1)
    /\ ~(c.token_refresh_before_expiry < 0)

\* RefreshConfig.validate(): TRUE when it returns, FALSE when it raises.
validate(c) ==
    /\ ~(c.max_retries < 0)
    /\ ~(c.retry_base_delay <= 0)
    /\ ~(c.concurrency < 1)
    /\ ~(c.token_refresh_before_expiry < 0)
    /\ ~(c.auto_refresh_interval < 1)

\* RefreshManager.update_config(**kwargs).
UpdateConfig(kwargs) ==
    /\ LET new_config == [field \in ConfigFields |->
                              IF field \in DOMAIN kwargs THEN kwargs[field]
                              ELSE config[field]]
       IN  /\ config' = IF validate(new_config) THEN new_config ELSE config
           /\ cfg_call' = [op |-> "update_config", kwargs |-> kwargs,
                           raised |-> ~validate(new_config), before |-> config]
    /\ UNCHANGED <<accounts, last, selector_vars, async_lock, is_refreshing,
                   progress, pc, pass, returned, direct, retry, auth, timer, tok,
                   sched, mark, priority_file, prio_call, hist, cache_file,
                   cache_call, disk, rr, activity, creds, auto, qtask>>

InitConfig ==
    /\ accounts = [i \in 1..Len(DispatchIds) |-> Account(DispatchIds[i])]
    /\ quota_cache = [id \in IdSet |-> NoQuota]
    /\ exceeded_records = [id \in IdSet |-> NoRecord]
    /\ now = 0
    /\ priority_accounts = <<>>
    /\ strategy = LOWEST_BALANCE
    /\ round_robin_index = 0
    /\ session_locks = [sid \in SessionIds |-> NoAccount]
    /\ session_timestamps = [sid \in SessionIds |-> 0]
    /\ last = NoCall
    /\ config = DefaultRefreshConfig
    /\ async_lock = FALSE
    /\ is_refreshing = FALSE
    /\ progress = NoProgress
    /\ pc = [c \in Callers |-> "idle"]
    /\ pass = [c \in Callers |-> NoPass]
    /\ returned = NoReturn
    /\ direct = [d \in Clients |-> FALSE]
    /\ ServiceIdle

NextConfig == \E kwargs \in ConfigKwargs : UpdateConfig(kwargs)

SpecConfig == InitConfig /\ [][NextConfig]_vars

\* The five constraints of a configuration.
ConfigConstraints(c) ==
    /\ c.max_retries >= 0
    /\ c.retry_base_delay > 0
    /\ c.concurrency >= 1
    /\ c.token_refresh_before_expiry >= 0
    /\ c.auto_refresh_interval >= 1

\* An update names a value that breaks the constraint of its field.
NamesInvalidValue(kwargs) ==
    \/ "max_retries" \in DOMAIN kwargs /\ kwargs["max_retries"] < 0
    \/ "retry_base_delay" \in DOMAIN kwargs /\ kwargs["retry_base_delay"] <= 0
    \/ "concurrency" \in DOMAIN kwargs /\ kwargs["concurrency"] < 1
    \/ "token_refresh_before_expiry" \in DOMAIN kwargs
          /\ kwargs["token_refresh_before_expiry"] < 0
    \/ "auto_refresh_interval" \in DOMAIN kwargs /\ kwargs["auto_refresh_interval"] < 1

\* C29: update_config refuses every update with max_retries < 0,
\* retry_base_delay <= 0, concurrency < 1, token_refresh_before_expiry < 0 or
\* auto_refresh_interval < 1; a refused update leaves every field unchanged, an
\* accepted one changes the fields it names and no other; hence after any
\* sequence of updates from the default configuration the five constraints hold.
C29_UpdateConfigValidates ==
    /\ ConfigConstraints(config)
    /\ cfg_call.op = "update_config" =>
          /\ NamesInvalidValue(cfg_call.kwargs) => cfg_call.raised
          /\ cfg_call.raised => config = cfg_call.before
          /\ ~cfg_call.raised =>
                \A field \in ConfigFields :
                    config[field] = IF field \in DOMAIN cfg_call.kwargs
                                    THEN cfg_call.kwargs[field]
                                    ELSE cfg_call.before[field]

\* After an accepted update, an update with auto_refresh_interval = 0 and a
\* valid max_retries is refused and changes nothing.
C29_Witness ==
    /\ cfg_call.op = "update_config"
    /\ cfg_call.raised
    /\ DOMAIN cfg_call.kwargs = {"auto_refresh_interval", "max_retries"}
    /\ cfg_call.kwargs["auto_refresh_interval"] = 0
    /\ cfg_call.kwargs["max_retries"] = 1
    /\ cfg_call.before # DefaultRefreshConfig
    /\ config = cfg_call.before
    /\ config.max_retries = 0

\* ---------------------------------------------- the lock and is_refreshing
\* C31: in every state in which the refresh lock is held, is_refreshing()
\* returns true and get_progress() returns a progress object, whether the
\* lock was taken by acquire_refresh_lock or by refresh_all_with_token.
C31_HeldMeansRefreshing ==
    async_lock => is_refreshing /\ progress.present

\* A client's acquire_refresh_lock has just answered true on a manager that
\* has run no pass: the lock is held, is_refreshing() is false and
\* get_progress() is None.
C31_Witness ==
    /\ returned.kind = "acquire"
    /\ returned.ok
    /\ direct[returned.caller]
    /\ async_lock
    /\ ~is_refreshing
    /\ ~progress.present

\* While a refresh_all_with_token call holds the lock, is_refreshing() is
\* true and the progress object is the running one.
C31_PassHoldsAndReports ==
    (\E c \in Callers : pc[c] = "gather") =>
        is_refreshing /\ progress.present /\ progress.status = "running"

\* ------------------------------------------------- round robin over calls
\* The ids of the accounts of the list that are available, in list order:
\* the list _select_round_robin builds.
available_ids(accs) ==
    LET available == SelectSeq(accs, is_available) IN
    [i \in 1..Len(available) |-> available[i].id]

\* The last MaxRun entries of a sequence.
LastCalls(calls) ==
    IF Len(calls) <= MaxRun THEN calls
    ELSE SubSeq(calls, Len(calls) - MaxRun + 1, Len(calls))

\* A call of AccountSelector.select on the account list, recorded with the
\* available ids and the index it found.
SelectInRun ==
    LET r == select(accounts) IN
    /\ round_robin_index' = r.index
    /\ last' = Call("select", r.ret, NoSession, NoAccount)
    /\ rr' = LastCalls(Append(rr, [available |-> available_ids(accounts),
                                   index |-> round_robin_index,
                                   ret |-> r.ret]))
    /\ UNCHANGED refresh_vars
    /\ UNCHANGED <<retry, auth, timer, tok, sched, mark, priority_file, prio_call,
                   hist, cache_file, cache_call, disk, cfg_call, activity, creds, auto, qtask>>
    /\ UNCHANGED <<accounts, quota_cache, exceeded_records, now, priority_accounts,
                   strategy, session_locks, session_timestamps>>

\* A selector set to round robin with an empty priority list.
InitRoundRobin ==
    /\ accounts = [i \in 1..Len(AccountIds) |-> Account(AccountIds[i])]
    /\ quota_cache = [id \in IdSet |-> NoQuota]
    /\ exceeded_records = [id \in IdSet |-> NoRecord]
    /\ now = 0
    /\ priority_accounts = <<>>
    /\ strategy = ROUND_ROBIN
    /\ round_robin_index = 0
    /\ session_locks = [sid \in SessionIds |-> NoAccount]
    /\ session_timestamps = [sid \in SessionIds |-> 0]
    /\ last = NoCall
    /\ RefreshIdle
    /\ ServiceIdle

NextRoundRobin ==
    \/ SelectInRun
    \/ \E i \in 1..Len(accounts) : ToggleAccount(i)

SpecRoundRobin == InitRoundRobin /\ [][NextRoundRobin]_vars

\* The calls i..j of the record found the same available ids.
SameAvailable(i, j) == \A k \in i..j : rr[k].available = rr[i].available

\* C32: under round robin with an empty priority list, consecutive select
\* calls that find the same n available accounts return
\* available[(i0 + k) mod n] at the k-th call, i0 being the index the first
\* call found; hence any n consecutive calls return each available account
\* exactly once.
C32_RoundRobinCycles ==
    (strategy = ROUND_ROBIN /\ priority_accounts = <<>>) =>
        \A i \in 1..Len(rr), j \in 1..Len(rr) :
            (i <= j /\ rr[i].available # <<>> /\ SameAvailable(i, j)) =>
                LET available == rr[i].available
                    n == Len(available)
                IN  /\ \A k \in i..j :
                           rr[k].ret = available[((rr[i].index + (k - i)) % n) + 1]
                    /\ j - i + 1 = n =>
                           /\ {rr[k].ret : k \in i..j} = {available[m] : m \in 1..n}
                           /\ \A k1 \in i..j, k2 \in i..j :
                                  rr[k1].ret = rr[k2].ret => k1 = k2

\* Two calls in a row over the same two available accounts, the first one
\* finding an index left beyond the end of the list by earlier calls over
\* three accounts: it wraps, and the two calls return the two accounts.
C32_Witness ==
    /\ Len(rr) >= 2
    /\ LET i == Len(rr) - 1 IN
       /\ Len(rr[i].available) = 2
       /\ rr[i + 1].available = rr[i].available
       /\ rr[i].index > 2
       /\ rr[i].ret # rr[i + 1].ret
       /\ {rr[i].ret, rr[i + 1].ret} = {rr[i].available[1], rr[i].available[2]}

\* ------------------------------------------------- the active-account window
\* ACTIVE_WINDOW_SECONDS.
ACTIVE_WINDOW_SECONDS == 60

\* The clock of the activity specification moves by half a window, so that
\* the ages 60 and 120 occur exactly.
HalfWindow == ACTIVE_WINDOW_SECONDS \div 2

\* _active_accounts.get(account_id) is None.
NeverUsed == [present |-> FALSE, last_used |-> 0]

\* No round of _update_loop has just been taken.
NoRound == [op |-> "none", at |-> 0, before |-> <<>>, active_ids |-> {}]

\* QuotaScheduler.mark_active at current_time.
mark_active(entries, account_id, current_time) ==
    [entries EXCEPT ![account_id] = [present |-> TRUE, last_used |-> current_time]]

\* QuotaScheduler.is_active at current_time.
is_active(entries, account_id, current_time) ==
    IF ~entries[account_id].present THEN FALSE
    ELSE current_time - entries[account_id].last_used < ACTIVE_WINDOW_SECONDS

\* get_active_accounts that counts an entry aged exactly one window.
get_active_accounts_inclusive(entries, current_time) ==
    {account_id \in DOMAIN entries :
        /\ entries[account_id].present
        /\ current_time - entries[account_id].last_used <= ACTIVE_WINDOW_SECONDS}

\* QuotaScheduler.get_active_accounts at current_time.
get_active_accounts(entries, current_time) ==
    {account_id \in DOMAIN entries :
        /\ entries[account_id].present
        /\ current_time - entries[account_id].last_used < ACTIVE_WINDOW_SECONDS}

\* QuotaScheduler.cleanup_inactive at current_time.
cleanup_inactive(entries, current_time) ==
    [account_id \in DOMAIN entries |->
        IF /\ entries[account_id].present
           /\ current_time - entries[account_id].last_used < ACTIVE_WINDOW_SECONDS * 2
        THEN entries[account_id] ELSE NeverUsed]

ActivityUnchanged ==
    /\ UNCHANGED refresh_vars
    /\ UNCHANGED <<retry, auth, timer, tok, mark, priority_file, prio_call, hist,
                   cache_file, cache_call, disk, cfg_call, rr, creds, auto, qtask>>

\* The record of a round that has ended is dropped at the next step; the
\* record of a round under way stays.
EndedRoundForgotten ==
    IF activity.round.op = "gather" THEN activity.round ELSE NoRound

\* Half a window passes.
HalfWindowPasses ==
    /\ now < MaxActiveTicks * HalfWindow
    /\ now' = now + HalfWindow
    /\ activity' = [activity EXCEPT !.round = EndedRoundForgotten]
    /\ last' = NoCall
    /\ UNCHANGED <<accounts, sched, quota_cache, exceeded_records, priority_accounts,
                   strategy, round_robin_index, session_locks, session_timestamps>>
    /\ ActivityUnchanged

\* What a fetch of a round hands back here: a usage with balance left, a
\* failure or an exception.
TickOutcomes == {o \in FetchOutcomes : o.kind # "usage" \/ o.balance = MaxBalance}

\* A request is served by the account (or an account since removed from the
\* list): mark_active.
MarkActive(account_id) ==
    /\ activity' = [activity EXCEPT
           !.last_used = mark_active(@, account_id, now),
           !.round = EndedRoundForgotten]
    /\ last' = NoCall
    /\ UNCHANGED <<accounts, sched, creds, auto, qtask>>
    /\ UNCHANGED selector_vars
    /\ ActivityUnchanged

\* _update_loop wakes from its sleep: it takes the active ids; with none it
\* goes straight to cleanup_inactive, else it gathers a fetch for every
\* account of the list whose id is active.
UpdateLoopWake ==
    /\ ~sched.running["tick"]
    /\ LET active_ids == get_active_accounts(activity.last_used, now)
           active_accounts == {i \in 1..Len(accounts) : accounts[i].id \in active_ids}
       IN  IF active_ids = {}
           THEN /\ activity' = [activity EXCEPT
                       !.last_used = cleanup_inactive(@, now),
                       !.round = [op |-> "cleanup", at |-> now,
                                  before |-> activity.last_used,
                                  active_ids |-> active_ids]]
                /\ sched' = [sched EXCEPT !.step = NoSchedStep]
           ELSE /\ activity' = [activity EXCEPT
                       !.round = [op |-> "gather", at |-> now,
                                  before |-> activity.last_used,
                                  active_ids |-> active_ids]]
                /\ sched' = [sched EXCEPT !.running["tick"] = TRUE,
                                          !.pending["tick"] = active_accounts,
                                          !.step = NoSchedStep]
    /\ last' = NoCall
    /\ UNCHANGED accounts
    /\ UNCHANGED selector_vars
    /\ ActivityUnchanged

\* The round after its gather: it saves the cache; unless the save raises
\* (the except clause (line 289) ends the round) cleanup_inactive follows.
UpdateLoopCleanup(saved) ==
    /\ sched.running["tick"]
    /\ sched.pending["tick"] = {}
    /\ sched' = [sched EXCEPT
           !.running["tick"] = FALSE,
           !.step = [NoSchedStep EXCEPT !.op = "end", !.kind = "tick"]]
    /\ activity' = [activity EXCEPT
           !.last_used = IF saved THEN cleanup_inactive(@, now) ELSE @,
           !.round = [op |-> IF saved THEN "cleanup" ELSE "save_raised",
                      at |-> now, before |-> activity.last_used,
                      active_ids |-> activity.round.active_ids]]
    /\ last' = NoCall
    /\ UNCHANGED accounts
    /\ UNCHANGED selector_vars
    /\ ActivityUnchanged

\* A running scheduler over two accounts; no account has been used.
InitActive ==
    /\ accounts = [i \in 1..Len(DispatchIds) |-> Account(DispatchIds[i])]
    /\ quota_cache = [id \in IdSet |-> NoQuota]
    /\ exceeded_records = [id \in IdSet |-> NoRecord]
    /\ now = 0
    /\ priority_accounts = <<>>
    /\ strategy = LOWEST_BALANCE
    /\ round_robin_index = 0
    /\ session_locks = [sid \in SessionIds |-> NoAccount]
    /\ session_timestamps = [sid \in SessionIds |-> 0]
    /\ last = NoCall
    /\ RefreshIdle
    /\ retry = NoRetry
    /\ auth = NoAuth
    /\ timer = NoTimer
    /\ tok = NoTok
    /\ sched = NoSched(accounts)
    /\ mark = NoMark(TRUE)
    /\ priority_file = NoFile
    /\ prio_call = NoPriorityCall
    /\ hist = NoHist
    /\ cache_file = NoFile
    /\ cache_call = NoCacheCall
    /\ disk = NoDisk
    /\ cfg_call = NoConfigCall
    /\ rr = NoRun
    /\ activity = [last_used |-> [id \in IdSet |-> NeverUsed], round |-> NoRound]
    /\ creds = NoCredentials
    /\ auto = NoAuto
    /\ qtask = NoUpdateTask

NextActive ==
    \/ \E account_id \in IdSet : MarkActive(account_id)
    \/ HalfWindowPasses
    \/ UpdateLoopWake
    \/ \E i \in 1..Len(accounts), o \in TickOutcomes :
           RefreshAccountInternal("tick", i, o)
    \/ \E saved \in BOOLEAN : UpdateLoopCleanup(saved)

SpecActive == InitActive /\ [][NextActive]_vars

\* The ids of the account list that were active when the round woke.
ActiveRegistered ==
    {accounts[i].id : i \in 1..Len(accounts)}
        \cap {id \in IdSet : is_active(activity.round.before, id, activity.round.at)}

\* C33: an id is active iff it was marked and now - last_used < 60; a round
\* of the update loop gathers a fetch for exactly the accounts of the list
\* that are active when it wakes, and fetches no other; cleanup_inactive
\* removes exactly the entries aged 120 s or more and leaves is_active as it
\* was for every id.
C33_ActiveWindowAndPruning ==
    /\ \A id \in IdSet :
           is_active(activity.last_used, id, now) <=>
               /\ activity.last_used[id].present
               /\ now - activity.last_used[id].last_used < 60
    /\ (activity.round.op = "gather" /\ sched.step.op = "none") =>
           {accounts[i].id : i \in sched.pending["tick"]} = ActiveRegistered
    /\ (activity.round.op = "gather" /\ sched.step.op = "fetch") =>
           accounts[sched.step.i].id \in ActiveRegistered
    /\ (activity.round.op = "cleanup" /\ activity.round.active_ids = {}) =>
           sched.step.op # "fetch"
    /\ activity.round.op = "cleanup" =>
           \A id \in IdSet :
               LET before == activity.round.before[id]
                   aged == before.present /\ activity.round.at - before.last_used >= 120
               IN  /\ activity.last_used[id] = IF aged THEN NeverUsed ELSE before
                   /\ is_active(activity.last_used, id, activity.round.at)
                        = is_active(activity.round.before, id, activity.round.at)

\* A round woke with one account of the list aged exactly 60 s (not
\* fetched), the other one fresh (fetched) and an entry aged 120 s or more,
\* which the cleanup has removed.
C33_Witness ==
    /\ activity.round.op = "cleanup"
    /\ Cardinality(activity.round.active_ids) = 1
    /\ \E id \in IdSet :
           /\ activity.round.before[id].present
           /\ activity.round.at - activity.round.before[id].last_used >= 120
           /\ ~activity.last_used[id].present
    /\ \E i \in 1..Len(accounts) :
           /\ activity.round.before[accounts[i].id].present
           /\ activity.last_used[accounts[i].id].present
           /\ accounts[i].id \notin activity.round.active_ids

\* --------------------------------------------------- the compression target
\* The compression of the recorded call went past the "fits" test and
\* computed its adjusted target.
TargetComputed ==
    /\ hist.op \in {"smart_compress", "handle_length_error_async"}
    /\ hist.levels # <<>>
    /\ hist.source \in {"no_old", "cache", "summary", "fallback"}

\* C34: the character target the compression uses at retry level r is
\* 100 000 x 0.8^r (100 000, 80 000, 64 000 for r = 0, 1, 2), when it is
\* called before sending and when the length-error handler calls it with
\* retry_level = retry_count.
C34_TargetIsPowerOfEightTenths ==
    TargetComputed =>
        hist.target = (100000 * Pow(8, hist.levels[1])) \div Pow(10, hist.levels[1])

\* The length-error handler at retry_count 1 has compressed a history by a
\* summary: the target it used is int(int(100000 * 0.7) * 0.8) = 56 000.
C34_Witness ==
    /\ hist.op = "handle_length_error_async"
    /\ hist.levels = <<1>>
    /\ hist.source = "summary"
    /\ hist.target = 56000

\* A compression at retry level 0, called directly or by the handler, uses
\* the target 100 000.
C34_FirstPassTarget ==
    (TargetComputed /\ hist.levels = <<0>>) => hist.target = 100000

\* ----------------------------------------------- single-account token refresh
\* token_refresh_before_expiry as the manager is configured by default.
RefreshWindow == DefaultRefreshConfig.token_refresh_before_expiry

\* Credentials could not be loaded (get_credentials() is None).
NoCredential == [present |-> FALSE, token |-> 0, expires_at |-> 0]

\* A credential: the number of its access token and its expiry instant.
Credential(token, expires_at) ==
    [present |-> TRUE, token |-> token, expires_at |-> expires_at]

\* What the auth endpoint answers to TokenRefresher.refresh(): new tokens, an
\* error string, or the call raises.
EndpointOutcomes ==
    {[kind |-> "ok", data |-> NoDatum],
     [kind |-> "fail", data |-> Datum(TRUE, <<"invalid_grant">>)],
     [kind |-> "fail", data |-> Datum(TRUE, <<"HTTP", "401">>)],
     [kind |-> "raise", data |-> Datum(TRUE, <<"timeout">>)]}

\* The auth endpoint has not been called.
NotCalled == [kind |-> "none", data |-> NoDatum]

\* TokenRefresher.refresh() on success: new tokens and an absolute expiry.
refreshed_credential(cred) ==
    Credential(cred.token + 1, now + TokenLifetimeWindows * RefreshWindow)

\* Account.get_credentials: the cached object, else the token file loaded.
get_credentials(id) ==
    IF creds.cached[id].present THEN creds.cached[id] ELSE creds.file[id]

\* What a call leaves: the token files, the cached credentials, the status
\* of the account, the endpoint's answer and the (ok, value) returned, or
\* raised with.
TokenResult(file, cached, status, endpoint, raised, ok, value) ==
    [file |-> file, cached |-> cached, status |-> status, endpoint |-> endpoint,
     raised |-> raised, ok |-> ok, value |-> value]

\* Account.refresh_token with the endpoint answering o.
account_refresh_token(acc, o) ==
    LET c == get_credentials(acc.id)
        new == refreshed_credential(c)
        loaded == [creds.cached EXCEPT ![acc.id] = c]
    IN  IF ~c.present
        THEN TokenResult(creds.file, loaded, acc.status, NotCalled, FALSE, FALSE,
                         Datum(TRUE, <<"cannot load credentials">>))
        ELSE IF o.kind = "ok"
        THEN TokenResult([creds.file EXCEPT ![acc.id] = new],
                         [creds.cached EXCEPT ![acc.id] = new],
                         ACTIVE, o, FALSE, TRUE, Datum(TRUE, <<"token refreshed">>))
        ELSE IF o.kind = "fail"
        THEN TokenResult(creds.file, loaded, UNHEALTHY, o, FALSE, FALSE, o.data)
        ELSE TokenResult(creds.file, loaded, acc.status, o, TRUE, FALSE, o.data)

\* RefreshManager.refresh_token_if_needed with the endpoint answering o.
refresh_token_if_needed(acc, o) ==
    LET c == get_credentials(acc.id)
        r == account_refresh_token(acc, o)
    IN  IF ~should_refresh_token(RefreshWindow, c.present, c.expires_at)
        THEN TokenResult(creds.file, [creds.cached EXCEPT ![acc.id] = c], acc.status,
                         NotCalled, FALSE, TRUE, Datum(TRUE, <<"token valid">>))
        ELSE IF r.raised THEN r
        ELSE IF r.ok THEN [r EXCEPT !.value = Datum(TRUE, <<"token refreshed">>)]
        ELSE [r EXCEPT !.value = refresh_failed_value(r.value)]

\* No token refresh call has just been made.
NoTokenCall == [op |-> "none"]

\* The call op on the account at index i has ended with r.
TokenCallEnds(op, i, r) ==
    /\ r.endpoint.kind = "ok" => get_credentials(accounts[i].id).token < MaxTokens
    /\ accounts' = [accounts EXCEPT ![i].status = r.status]
    /\ creds' = [file |-> r.file, cached |-> r.cached,
                 call |-> [op |-> op, i |-> i, endpoint |-> r.endpoint,
                           raised |-> r.raised, ok |-> r.ok, value |-> r.value,
                           before |-> creds.file[accounts[i].id],
                           status_before |-> accounts[i].status]]
    /\ last' = NoCall
    /\ UNCHANGED selector_vars
    /\ UNCHANGED refresh_vars
    /\ UNCHANGED <<retry, auth, timer, tok, sched, mark, priority_file, prio_call,
                   hist, cache_file, cache_call, disk, cfg_call, rr, activity, qtask>>

\* account.refresh_token() is called (the admin's refresh of one account).
AccountRefreshToken(i, o) ==
    /\ TokenCallEnds("refresh_token", i, account_refresh_token(accounts[i], o))
    /\ UNCHANGED auto

\* refresh_token_if_needed(account) is called.
RefreshTokenIfNeeded(i, o) ==
    /\ TokenCallEnds("refresh_token_if_needed", i,
                     refresh_token_if_needed(accounts[i], o))
    /\ UNCHANGED auto

\* A refresh window passes.
WindowPasses(max_windows) ==
    /\ now < max_windows * RefreshWindow
    /\ now' = now + RefreshWindow
    /\ creds' = [creds EXCEPT !.call = NoTokenCall]
    /\ last' = NoCall
    /\ UNCHANGED <<accounts, quota_cache, exceeded_records, priority_accounts,
                   strategy, round_robin_index, session_locks, session_timestamps>>
    /\ UNCHANGED refresh_vars
    /\ UNCHANGED <<retry, auth, timer, tok, sched, mark, priority_file, prio_call,
                   hist, cache_file, cache_call, disk, cfg_call, rr, activity, qtask>>

\* The token files as the accounts were added: a fresh credential, or a file
\* that cannot be loaded.
TokenFiles ==
    {f \in [IdSet -> {NoCredential, Credential(0, TokenLifetimeWindows * RefreshWindow)}] :
        \A id \in IdSet : (\A i \in 1..Len(DispatchIds) : DispatchIds[i] # id) =>
                              f[id] = NoCredential}

InitSingle ==
    /\ accounts = [i \in 1..Len(DispatchIds) |-> Account(DispatchIds[i])]
    /\ quota_cache = [id \in IdSet |-> NoQuota]
    /\ exceeded_records = [id \in IdSet |-> NoRecord]
    /\ now = 0
    /\ priority_accounts = <<>>
    /\ strategy = LOWEST_BALANCE
    /\ round_robin_index = 0
    /\ session_locks = [sid \in SessionIds |-> NoAccount]
    /\ session_timestamps = [sid \in SessionIds |-> 0]
    /\ last = NoCall
    /\ RefreshIdle
    /\ retry = NoRetry
    /\ auth = NoAuth
    /\ timer = NoTimer
    /\ tok = NoTok
    /\ sched = NoSched(accounts)
    /\ mark = NoMark(TRUE)
    /\ priority_file = NoFile
    /\ prio_call = NoPriorityCall
    /\ hist = NoHist
    /\ cache_file = NoFile
    /\ cache_call = NoCacheCall
    /\ disk = NoDisk
    /\ cfg_call = NoConfigCall
    /\ rr = NoRun
    /\ activity = NoActivity
    /\ auto = NoAuto
    /\ qtask = NoUpdateTask
    /\ \E f \in TokenFiles :
          creds = [file |-> f, cached |-> [id \in IdSet |-> NoCredential],
                   call |-> NoTokenCall]

NextSingle ==
    \/ \E i \in 1..Len(accounts), o \in EndpointOutcomes : AccountRefreshToken(i, o)
    \/ \E i \in 1..Len(accounts), o \in EndpointOutcomes : RefreshTokenIfNeeded(i, o)
    \/ WindowPasses(MaxSingleWindows) /\ UNCHANGED auto

SpecSingle == InitSingle /\ [][NextSingle]_vars

\* What the claim says of a refresh whose endpoint call has ended, for the
\* calls named in ops.
RefreshOutcomeAsClaimed(ops) ==
    (creds.call.op \in ops /\ creds.call.endpoint.kind \in {"ok", "fail"}) =>
        LET acc == accounts[creds.call.i]
            before == creds.call.before
        IN  IF creds.call.endpoint.kind = "ok"
            THEN /\ creds.call.ok
                 /\ creds.file[acc.id].present
                 /\ creds.file[acc.id].token = before.token + 1
                 /\ creds.file[acc.id] # before
                 /\ creds.cached[acc.id] = creds.file[acc.id]
                 /\ acc.status = ACTIVE
            ELSE /\ ~creds.call.ok
                 /\ acc.status = UNHEALTHY
                 /\ creds.file[acc.id] = before
                 /\ creds.call.value = creds.call.endpoint.data

\* C36: a single-account token refresh that succeeds persists the new
\* credential and sets the status active; one that fails sets the status
\* unhealthy, leaves the stored credential unchanged and returns the auth
\* endpoint's error string unmodified, through Account.refresh_token and
\* through refresh_token_if_needed.
C36_RefreshPersistsOrReturnsError ==
    RefreshOutcomeAsClaimed({"refresh_token", "refresh_token_if_needed"})

\* refresh_token_if_needed on an account whose token has expired, the
\* endpoint answering "invalid_grant": the status is unhealthy, the file is
\* unchanged, and the string returned is the endpoint's with a prefix.
C36_Witness ==
    /\ creds.call.op = "refresh_token_if_needed"
    /\ creds.call.endpoint.kind = "fail"
    /\ ~creds.call.ok
    /\ accounts[creds.call.i].status = UNHEALTHY
    /\ creds.file[accounts[creds.call.i].id] = creds.call.before
    /\ creds.call.value = refresh_failed_value(creds.call.endpoint.data)
    /\ creds.call.value # creds.call.endpoint.data

\* Account.refresh_token called directly does as claimed.
C36_AccountRefreshTokenAsClaimed == RefreshOutcomeAsClaimed({"refresh_token"})

\* ------------------------------------------------------ the auto-refresh loop
\* The loop asleep between two rounds, none made yet.
AutoAsleep ==
    [running |-> TRUE, queue |-> <<>>, selected |-> {}, attempted |-> {},
     rounds |-> 0]

\* The account needs its token refreshed: should_refresh_token(account).
needs_refresh(acc) ==
    LET c == get_credentials(acc.id)
    IN  should_refresh_token(RefreshWindow, c.present, c.expires_at)

\* The filter of _auto_refresh_loop (lines 809-820).
auto_selects(acc) ==
    /\ acc.enabled
    /\ acc.status \notin {UNHEALTHY, SUSPENDED, DISABLED}
    /\ needs_refresh(acc)

\* The accounts left to the round after an attempt, under a loop that gives
\* the round up when an attempt does not succeed.
rest_after_attempt_aborting(queue, r) == IF r.ok THEN Tail(queue) ELSE <<>>

\* The accounts left to the round after an attempt: a failure is printed, an
\* exception is caught and printed, and the for loop goes on.
rest_after_attempt(queue, r) == Tail(queue)

\* The loop wakes from its sleep and builds accounts_to_refresh;
\* should_refresh_token loads the credentials of the accounts it looks at.
\* rounds is the number the round is given.
WakeAndSelect(rounds) ==
    /\ auto.running
    /\ auto.queue = <<>>
    /\ LET looked == {i \in 1..Len(accounts) :
                         /\ accounts[i].enabled
                         /\ accounts[i].status \notin {UNHEALTHY, SUSPENDED, DISABLED}}
           chosen == {i \in 1..Len(accounts) : auto_selects(accounts[i])}
       IN  /\ auto' = [auto EXCEPT
                  !.queue = SelectSeq([i \in 1..Len(accounts) |-> i],
                                      LAMBDA i : i \in chosen),
                  !.selected = chosen,
                  !.attempted = {},
                  !.rounds = rounds]
           /\ creds' = [creds EXCEPT
                  !.cached = [id \in IdSet |->
                                 IF \E i \in looked : accounts[i].id = id
                                 THEN get_credentials(id) ELSE @[id]],
                  !.call = NoTokenCall]
    /\ last' = NoCall
    /\ UNCHANGED accounts
    /\ UNCHANGED selector_vars
    /\ UNCHANGED refresh_vars
    /\ UNCHANGED <<retry, auth, timer, tok, sched, mark, priority_file, prio_call,
                   hist, cache_file, cache_call, disk, cfg_call, rr, activity, qtask>>

\* A round of the loop, the rounds counted up to MaxRounds.
AutoWake ==
    /\ auto.rounds < MaxRounds
    /\ WakeAndSelect(auto.rounds + 1)

\* The for loop awaits refresh_token_if_needed for the next account of the
\* round, the endpoint answering o.
AutoRefreshNext(o) ==
    /\ auto.running
    /\ auto.queue # <<>>
    /\ LET i == Head(auto.queue)
           r == refresh_token_if_needed(accounts[i], o)
       IN  /\ TokenCallEnds("refresh_token_if_needed", i, r)
           /\ auto' = [auto EXCEPT
                  !.queue = rest_after_attempt(@, r),
                  !.attempted = @ \cup {i}]

InitAuto ==
    /\ accounts = [i \in 1..Len(DispatchIds) |-> Account(DispatchIds[i])]
    /\ quota_cache = [id \in IdSet |-> NoQuota]
    /\ exceeded_records = [id \in IdSet |-> NoRecord]
    /\ now = 0
    /\ priority_accounts = <<>>
    /\ strategy = LOWEST_BALANCE
    /\ round_robin_index = 0
    /\ session_locks = [sid \in SessionIds |-> NoAccount]
    /\ session_timestamps = [sid \in SessionIds |-> 0]
    /\ last = NoCall
    /\ RefreshIdle
    /\ retry = NoRetry
    /\ auth = NoAuth
    /\ timer = NoTimer
    /\ tok = NoTok
    /\ sched = NoSched(accounts)
    /\ mark = NoMark(TRUE)
    /\ priority_file = NoFile
    /\ prio_call = NoPriorityCall
    /\ hist = NoHist
    /\ cache_file = NoFile
    /\ cache_call = NoCacheCall
    /\ disk = NoDisk
    /\ cfg_call = NoConfigCall
    /\ rr = NoRun
    /\ activity = NoActivity
    /\ auto = AutoAsleep
    /\ qtask = NoUpdateTask
    /\ \E f \in TokenFiles :
          creds = [file |-> f, cached |-> [id \in IdSet |-> NoCredential],
                   call |-> NoTokenCall]

NextAuto ==
    \/ AutoWake
    \/ \E o \in EndpointOutcomes : AutoRefreshNext(o)
    \/ \E i \in 1..Len(accounts) : ToggleAccount(i)
    \/ WindowPasses(MaxSingleWindows) /\ UNCHANGED auto

SpecAuto == InitAuto /\ [][NextAuto]_vars

\* The accounts of a round still waiting for their attempt.
Queued == {auto.queue[k] : k \in 1..Len(auto.queue)}

\* C35: a round of the auto-refresh loop selects only accounts that are
\* enabled, not unhealthy and whose token needs a refresh; it attempts the
\* selected accounts one at a time, calling the auth endpoint only for a
\* token that needs a refresh; whatever an attempt gives (failure or
\* exception), the other selected accounts stay due in the round and the
\* loop keeps running for later rounds.
C35_AutoRefreshSelectsAndIsolates ==
    [][/\ auto'.rounds # auto.rounds =>
            /\ \A i \in auto'.selected :
                   /\ accounts[i].enabled
                   /\ accounts[i].status # UNHEALTHY
                   /\ needs_refresh(accounts[i])
            /\ auto'.attempted = {}
            /\ {auto'.queue[k] : k \in 1..Len(auto'.queue)} = auto'.selected
       /\ (auto'.rounds = auto.rounds /\ auto' # auto) =>
            /\ \E i \in auto.selected \ auto.attempted :
                   /\ auto'.attempted = auto.attempted \cup {i}
                   /\ creds'.call.i = i
                   /\ creds'.call.endpoint.kind # "none" => needs_refresh(accounts[i])
            /\ auto'.selected = auto.selected
            /\ {auto'.queue[k] : k \in 1..Len(auto'.queue)}
                   = auto'.selected \ auto'.attempted
       /\ auto'.running
      ]_vars

\* A round selected both accounts; the attempt on the first one failed (it
\* is unhealthy now), and the second one has been attempted all the same and
\* its token refreshed.
C35_Witness ==
    /\ auto.selected = {1, 2}
    /\ auto.attempted = {1, 2}
    /\ accounts[1].status = UNHEALTHY
    /\ creds.call.op = "refresh_token_if_needed"
    /\ creds.call.i = 2
    /\ creds.call.endpoint.kind = "ok"
    /\ accounts[2].status = ACTIVE

\* ------------------------------------------------- failed usage fetches (C37)
\* core/quota_cache.py, core/quota_scheduler.py.
\* CachedQuota.from_error(account_id, error): the dataclass defaults with
\* updated_at and error given, then __post_init__.
CachedQuota_from_error(account_id, error) ==
    CachedQuota([present |-> TRUE, account_id |-> account_id, usage_limit |-> 0,
                 balance |-> 0, balance_status |-> NORMAL,
                 is_low_balance |-> FALSE, is_exhausted |-> FALSE,
                 updated_at |-> 0, error |-> error])

\* The fields of a snapshot that Account.is_available and the selector read.
cached_entry(quota) ==
    [present |-> quota.present, error |-> quota.error # NoError,
     balance |-> quota.balance, is_exhausted |-> quota.is_exhausted]

\* C37: when the scheduler has processed a failed usage fetch for an account
\* (a failure result or an exception), the cache entry of the account is the
\* error snapshot: error set, balance fields zero, balance status normal,
\* not exhausted; the account's enabled flag and status are what they were,
\* and an account that was available is still available.
C37_FailedFetchWritesErrorSnapshot ==
    (sched.step.op = "fetch" /\ ~sched.step.ok) =>
        LET acc == accounts[sched.step.i]
            quota == CachedQuota_from_error(acc.id, "timeout")
        IN /\ sched.step.outcome \in {"error", "raise"}
           /\ quota_cache[acc.id] = cached_entry(quota)
           /\ quota.error # NoError
           /\ quota.balance = 0
           /\ quota.usage_limit = 0
           /\ quota.balance_status = NORMAL
           /\ ~quota.is_low_balance
           /\ ~quota.is_exhausted
           /\ acc.enabled = sched.step.was_enabled
           /\ acc.status = sched.step.was_status
           /\ sched.step.was_available => is_available(acc)

\* The fetch for an available account whose snapshot showed a positive
\* balance raised an exception: the entry is the error snapshot and the
\* account is still available.
C37_Witness ==
    /\ sched.step.op = "fetch"
    /\ sched.step.outcome = "raise"
    /\ sched.step.was_available
    /\ is_available(accounts[sched.step.i])
    /\ quota_cache[accounts[sched.step.i].id].error
    /\ \E j \in 1..Len(accounts) :
           /\ j # sched.step.i
           /\ ~accounts[j].enabled
           /\ sched.origin[accounts[j].id] = "scheduler"

\* ------------------------------------------ recovery of an unhealthy account (C38)
\* core/refresh_manager.py, core/account.py.  The auto-refresh loop and batch
\* passes with the default skip flags, both running for ever; the auth
\* endpoint fails at most while no account is unhealthy, and succeeds from
\* the first failure on.
\* The task that issues the batch passes.
BatchCaller == "p1"

\* The answers the auth endpoint may give in the present state.
EndpointAnswers ==
    {o \in EndpointOutcomes :
        \/ o.kind = "ok"
        \/ o.kind = "fail" /\ \A i \in 1..Len(accounts) : accounts[i].status # UNHEALTHY}

\* The token step of refresh_account_with_token, by what
\* refresh_token_if_needed gave.
token_outcome(r) ==
    IF r.raised THEN "raised"
    ELSE IF r.ok THEN IF r.endpoint.kind = "none" THEN "valid" ELSE "refreshed"
    ELSE IF r.endpoint.kind = "none" THEN "no_creds" ELSE "failed"

\* The loop wakes again and again: its rounds are numbered round the clock.
LoopWake == WakeAndSelect((auto.rounds % MaxRounds) + 1)

\* One attempt of the loop, the endpoint answering as it may.
LoopRefreshNext == \E o \in EndpointAnswers : AutoRefreshNext(o)

\* refresh_all_with_token(accounts) with skip_disabled and skip_error at
\* their defaults.
DefaultPass == StartPass(BatchCaller, TRUE, TRUE)

\* One attempt of retry_with_backoff inside refresh_one, the token step being
\* refresh_token_if_needed on the credentials of the account, the endpoint
\* answering o, and get_quota_func giving quota.
BatchAttempt(c, i, o, quota, balance) ==
    /\ pc[c] = "gather"
    /\ i \in InFlight(c)
    /\ LET task == pass[c].tasks[i]
           k == IndexOf(task.id)
           r == refresh_token_if_needed(accounts[k], o)
           result == refresh_account_with_token(token_outcome(r), quota)
           st == retry_with_backoff(result, task.calls, config.max_retries)
       IN  /\ r.endpoint.kind = "ok" => get_credentials(task.id).token < MaxTokens
           /\ accounts' = [accounts EXCEPT ![k].status = r.status]
           /\ creds' = [file |-> r.file, cached |-> r.cached,
                        call |-> [op |-> "refresh_all_with_token", i |-> k,
                                  endpoint |-> r.endpoint, raised |-> r.raised,
                                  ok |-> r.ok, value |-> r.value,
                                  before |-> creds.file[task.id],
                                  status_before |-> accounts[k].status]]
           /\ quota_cache' = IF result = "ok"
                             THEN [quota_cache EXCEPT ![task.id] = from_usage_info(balance)]
                             ELSE quota_cache
           /\ pass' = [pass EXCEPT ![c].tasks[i].st = st,
                                   ![c].tasks[i].calls = @ + 1,
                                   ![c].sem = IF st = "running" THEN @ ELSE @ + 1]
           /\ progress' = IF st \in {"success", "failed"}
                          THEN update_progress(progress, NoAccount, st = "success",
                                               st = "failed", "none")
                          ELSE progress
    /\ returned' = NoReturn
    /\ last' = NoCall
    /\ UNCHANGED <<config, async_lock, is_refreshing, pc, direct>>
    /\ UNCHANGED <<exceeded_records, now, priority_accounts, strategy,
                   round_robin_index, session_locks, session_timestamps>>
    /\ UNCHANGED <<retry, auth, timer, tok, sched, mark, priority_file, prio_call,
                   hist, cache_file, cache_call, disk, cfg_call, rr, activity,
                   auto, qtask>>

\* An attempt of the batch pass, the endpoint answering as it may.
DefaultPassAttempt ==
    \E i \in 1..Len(accounts), o \in EndpointAnswers, quota \in {"ok", "failed"} :
        BatchAttempt(BatchCaller, i, o, quota, MaxBalance)

InitRecover == InitAuto

NextRecover ==
    \/ LoopWake
    \/ LoopRefreshNext
    \/ DefaultPass
    \/ AcquireSemaphore(BatchCaller)
    \/ DefaultPassAttempt
    \/ FinishPass(BatchCaller)
    \/ WindowPasses(MaxSingleWindows) /\ UNCHANGED auto

\* The event loop runs every coroutine that is ready: the loop task wakes
\* after each sleep and goes through its round, batch passes keep being
\* issued and run to their end, and time passes.
FairRecover ==
    /\ WF_vars(LoopWake)
    /\ WF_vars(LoopRefreshNext)
    /\ WF_vars(DefaultPass)
    /\ WF_vars(AcquireSemaphore(BatchCaller))
    /\ WF_vars(DefaultPassAttempt)
    /\ WF_vars(FinishPass(BatchCaller))
    /\ WF_vars(WindowPasses(MaxSingleWindows) /\ UNCHANGED auto)

SpecRecover == InitRecover /\ [][NextRecover]_vars /\ FairRecover

\* C38: an enabled account whose token refresh failed (status unhealthy)
\* eventually has status active again and is available, the endpoint
\* succeeding from the failure on, with only the auto-refresh loop and the
\* default batch passes at work.
C38_UnhealthyRecovers ==
    \A i \in 1..Len(DispatchIds) :
        (accounts[i].enabled /\ accounts[i].status = UNHEALTHY)
            ~> (accounts[i].status = ACTIVE /\ is_available(accounts[i]))

\* The first account is enabled and unhealthy after a failed refresh and its
\* token is due; since then the loop has gone through a round that did not
\* select it, and a default batch pass has returned that did not take it.
C38_Witness ==
    /\ accounts[1].enabled
    /\ accounts[1].status = UNHEALTHY
    /\ needs_refresh(accounts[1])
    /\ auto.rounds > 0
    /\ auto.queue = <<>>
    /\ 1 \notin auto.selected
    /\ returned.kind = "returned"
    /\ \A k \in 1..Len(returned.tasks) : returned.tasks[k].id # accounts[1].id
    /\ async_lock = FALSE

\* The account at index i is unhealthy and neither queued in the round of
\* the loop nor the account of an unfinished task of a batch pass.
Stranded(i) ==
    /\ accounts[i].status = UNHEALTHY
    /\ i \notin Queued
    /\ \A c \in Callers : \A k \in 1..Len(pass[c].tasks) :
           pass[c].tasks[k].id = accounts[i].id => pass[c].tasks[k].st \in DoneStates

\* Neither the loop nor a default batch pass ever takes up an unhealthy
\* account: an unhealthy account that no round and no pass begun earlier
\* still has before it stays so whatever happens.
C38_StrandedForEver ==
    [][\A i \in 1..Len(DispatchIds) : Stranded(i) => Stranded(i)']_vars

\* ------------------------------------------- ids of the priority list (C39)
\* core/account_selector.py.  The lists a caller may hand over are any lists
\* of ids, an id named twice included (the admin handler passes the list of
\* the request body as it is).
RequestLists == SeqsUpTo({DispatchIds[i] : i \in 1..Len(DispatchIds)}, MaxRequestLen)

\* get_priority_order(account_id): list.index(account_id) + 1, the position
\* of the first occurrence; 0 stands for None.
get_priority_order(list, account_id) ==
    IF account_id \notin Ids(list) THEN 0
    ELSE CHOOSE k \in 1..Len(list) :
             list[k] = account_id /\ \A h \in 1..(k - 1) : list[h] # account_id

\* No id is in the list more than once.
NoIdTwice(list) == \A j, k \in 1..Len(list) : list[j] = list[k] => j = k

NextPriorityLists ==
    \/ \E ids \in RequestLists, valid \in ValidSets : SetPriorityAccounts(ids, valid)
    \/ \E id \in IdSet, position \in Positions, valid \in ValidSets :
           AddPriorityAccount(id, position, valid)
    \/ \E id \in IdSet : RemovePriorityAccount(id)
    \/ \E ids \in RequestLists : ReorderPriority(ids)

SpecPriorityLists == InitDispatch /\ [][NextPriorityLists]_vars

\* C39: after any sequence of set, add, remove and reorder calls the
\* priority list holds no id more than once: get_priority_order gives the
\* k-th id of the list the position k, and after a successful remove the id
\* is not in the list.
C39_NoIdTwiceInPriorityList ==
    /\ NoIdTwice(priority_accounts)
    /\ \A k \in 1..Len(priority_accounts) :
           get_priority_order(priority_accounts, priority_accounts[k]) = k
    /\ (prio_call.op = "remove" /\ prio_call.ok) =>
           prio_call.ids[1] \notin Ids(priority_accounts)

\* remove_priority_account has succeeded for an id that a reorder had left
\* twice in the list: the id is still in the list.
C39_Witness ==
    /\ prio_call.op = "remove"
    /\ prio_call.ok
    /\ ~NoIdTwice(prio_call.list)
    /\ prio_call.ids[1] \in Ids(priority_accounts)
    /\ get_priority_order(priority_accounts, prio_call.ids[1]) > 0

\* An add or a remove on a list that holds no id twice leaves such a list,
\* and a successful remove then leaves the id out of it.
C39_AddRemoveKeepIdsSingle ==
    (prio_call.op \in {"add", "remove"} /\ NoIdTwice(prio_call.list)) =>
        /\ NoIdTwice(priority_accounts)
        /\ (prio_call.op = "remove" /\ prio_call.ok) =>
               prio_call.ids[1] \notin Ids(priority_accounts)

\* ----------------------------------- start and stop of the quota scheduler (C40)
\* core/quota_scheduler.py.  The start and stop calls run as coroutines of
\* one event loop: a step is what a coroutine does between two awaits.  No
\* account is marked active in this specification, so a round of
\* _update_loop finds get_active_accounts() empty and fetches nothing.
\* The coroutines that call start().
StartCalls == {"s1", "s2"}

\* Python None where a task is expected.
NoTask == 0

\* A start() call that is not under way.
StartIdle == [pc |-> "idle", todo |-> {}]

\* QuotaScheduler.__init__: not running, no task; no call under way.
SchedulerAtRest ==
    [running |-> FALSE, task |-> NoTask, alive |-> {}, created |-> 0,
     start |-> [s \in StartCalls |-> StartIdle],
     stop |-> [pc |-> "idle", awaited |-> NoTask],
     step |-> [op |-> "none"]]

\* The frame of a step that touches only the scheduler's own fields.
OnlyScheduler ==
    /\ last' = NoCall
    /\ UNCHANGED accounts
    /\ UNCHANGED selector_vars
    /\ UNCHANGED refresh_vars
    /\ UNCHANGED <<retry, auth, timer, tok, sched, mark, priority_file, prio_call,
                   hist, cache_file, cache_call, disk, cfg_call, rr, activity,
                   creds, auto>>

\* start() up to its await: it returns at once when _running is set, else it
\* sets _running and awaits refresh_all, which gathers a fetch per account.
SchedulerStart(s) ==
    /\ qtask.start[s].pc = "idle"
    /\ qtask.created + Cardinality({c \in StartCalls : qtask.start[c].pc # "idle"})
           < MaxLoopTasks
    /\ qtask' = IF qtask.running
                THEN [qtask EXCEPT !.step = [op |-> "start_ignored"]]
                ELSE [qtask EXCEPT
                        !.running = TRUE,
                        !.start[s] = [pc |-> "refresh", todo |-> 1..Len(accounts)],
                        !.step = [op |-> "start"]]
    /\ OnlyScheduler

\* _refresh_account_internal for the account at index i, in the refresh_all
\* of the start call s, from the return of get_account_usage on.
StartupFetch(s, i, o) ==
    /\ qtask.start[s].pc = "refresh"
    /\ i \in qtask.start[s].todo
    /\ LET acc == accounts[i]
           ok == o.kind = "usage"
           quota == IF ok THEN from_usage_info(o.balance) ELSE from_error
           enabled == IF ok THEN enabled_after_fetch(acc.enabled, quota)
                            ELSE acc.enabled
       IN /\ quota_cache' = [quota_cache EXCEPT ![acc.id] = quota]
          /\ accounts' = [accounts EXCEPT ![i].enabled = enabled]
          /\ sched' = [sched EXCEPT
                 !.origin[acc.id] = origin_after_fetch(@, acc.enabled, enabled),
                 !.step = NoSchedStep]
    /\ qtask' = [qtask EXCEPT !.start[s].todo = @ \ {i},
                              !.step = [op |-> "fetch"]]
    /\ last' = NoCall
    /\ UNCHANGED <<exceeded_records, now, priority_accounts, strategy,
                   round_robin_index, session_locks, session_timestamps>>
    /\ UNCHANGED refresh_vars
    /\ UNCHANGED <<retry, auth, timer, tok, mark, priority_file, prio_call, hist,
                   cache_file, cache_call, disk, cfg_call, rr, activity, creds, auto>>

\* The handle asyncio.create_task gives the next loop task.
create_task == qtask.created + 1

\* start() after refresh_all: the cache and the account list are saved, the
\* loop task is created and _task names it.
StartCreatesTask(s) ==
    /\ qtask.start[s].pc = "refresh"
    /\ qtask.start[s].todo = {}
    /\ sched' = [sched EXCEPT !.stored = accounts_data(accounts), !.step = NoSchedStep]
    /\ qtask' = [qtask EXCEPT
           !.task = create_task,
           !.alive = @ \cup {create_task},
           !.created = create_task,
           !.start[s] = StartIdle,
           !.step = [op |-> "start_returned"]]
    /\ last' = NoCall
    /\ UNCHANGED accounts
    /\ UNCHANGED selector_vars
    /\ UNCHANGED refresh_vars
    /\ UNCHANGED <<retry, auth, timer, tok, mark, priority_file, prio_call, hist,
                   cache_file, cache_call, disk, cfg_call, rr, activity, creds, auto>>

\* stop() up to its await: _running is cleared; with no task it returns, a
\* task that has ended is awaited without a suspension and forgotten, a
\* task alive is cancelled and awaited.
SchedulerStop ==
    /\ qtask.stop.pc = "idle"
    /\ qtask' = IF qtask.task = NoTask
                THEN [qtask EXCEPT !.running = FALSE,
                                   !.step = [op |-> "stop_returned"]]
                ELSE IF qtask.task \notin qtask.alive
                THEN [qtask EXCEPT !.running = FALSE, !.task = NoTask,
                                   !.step = [op |-> "stop_returned"]]
                ELSE [qtask EXCEPT !.running = FALSE,
                                   !.stop = [pc |-> "await", awaited |-> qtask.task],
                                   !.step = [op |-> "stop"]]
    /\ OnlyScheduler

\* The cancelled task is resumed with CancelledError, which ends it.
LoopTaskCancelled ==
    /\ qtask.stop.pc = "await"
    /\ qtask.stop.awaited \in qtask.alive
    /\ qtask' = [qtask EXCEPT !.alive = @ \ {qtask.stop.awaited},
                              !.step = [op |-> "cancelled"]]
    /\ OnlyScheduler

\* stop() after its await: _task = None, and it returns.
StopReturns ==
    /\ qtask.stop.pc = "await"
    /\ qtask.stop.awaited \notin qtask.alive
    /\ qtask' = [qtask EXCEPT !.task = NoTask,
                              !.stop = [pc |-> "idle", awaited |-> NoTask],
                              !.step = [op |-> "stop_returned"]]
    /\ OnlyScheduler

\* The loop task t is run for the first time or wakes from its sleep: it
\* ends when _running is clear, else it goes through a round (no account is
\* active: nothing to fetch, nothing to clean up) and sleeps again.
LoopTaskWakes(t) ==
    /\ t \in qtask.alive
    /\ ~(qtask.stop.pc = "await" /\ qtask.stop.awaited = t)
    /\ qtask' = IF qtask.running
                THEN [qtask EXCEPT !.step = [op |-> "round"]]
                ELSE [qtask EXCEPT !.alive = @ \ {t}, !.step = [op |-> "loop_ended"]]
    /\ OnlyScheduler

InitStartStop ==
    /\ accounts = <<Account(DispatchIds[1])>>
    /\ quota_cache = [id \in IdSet |-> NoQuota]
    /\ exceeded_records = [id \in IdSet |-> NoRecord]
    /\ now = 0
    /\ priority_accounts = <<>>
    /\ strategy = LOWEST_BALANCE
    /\ round_robin_index = 0
    /\ session_locks = [sid \in SessionIds |-> NoAccount]
    /\ session_timestamps = [sid \in SessionIds |-> 0]
    /\ last = NoCall
    /\ RefreshIdle
    /\ retry = NoRetry
    /\ auth = NoAuth
    /\ timer = NoTimer
    /\ tok = NoTok
    /\ sched = NoSched(accounts)
    /\ mark = NoMark(TRUE)
    /\ priority_file = NoFile
    /\ prio_call = NoPriorityCall
    /\ hist = NoHist
    /\ cache_file = NoFile
    /\ cache_call = NoCacheCall
    /\ disk = NoDisk
    /\ cfg_call = NoConfigCall
    /\ rr = NoRun
    /\ activity = NoActivity
    /\ creds = NoCredentials
    /\ auto = NoAuto
    /\ qtask = SchedulerAtRest

NextStartStop ==
    \/ \E s \in StartCalls : SchedulerStart(s)
    \/ \E s \in StartCalls, i \in 1..Len(accounts), o \in FetchOutcomes :
           StartupFetch(s, i, o)
    \/ \E s \in StartCalls : StartCreatesTask(s)
    \/ SchedulerStop
    \/ LoopTaskCancelled
    \/ StopReturns
    \/ \E t \in 1..MaxLoopTasks : LoopTaskWakes(t)

SpecStartStop == InitStartStop /\ [][NextStartStop]_vars

\* No start() call is between its first and its last step.
NoSchedulerStartInProgress == \A s \in StartCalls : qtask.start[s].pc = "idle"

\* C40: whatever the interleaving of the start and stop calls, at most one
\* update-loop task is alive, and when stop has just returned with no start
\* in progress, none is.
C40_AtMostOneLoopTask ==
    /\ Cardinality(qtask.alive) <= 1
    /\ (qtask.step.op = "stop_returned" /\ NoSchedulerStartInProgress) => qtask.alive = {}

\* Two loop tasks are alive with _running set, no start or stop call under
\* way: _task names one of them, nothing names the other.
C40_Witness ==
    /\ Cardinality(qtask.alive) = 2
    /\ qtask.running
    /\ NoSchedulerStartInProgress
    /\ qtask.stop.pc = "idle"
    /\ qtask.task \in qtask.alive

\* A start that finds _running set creates no task, and every task alive was
\* created by a start: the handles alive are among those handed out.
C40_TasksComeFromStarts ==
    /\ qtask.alive \subseteq 1..qtask.created
    /\ qtask.task \in 0..qtask.created
    /\ (qtask.task # NoTask /\ qtask.stop.pc = "idle" /\ NoSchedulerStartInProgress
           /\ qtask.running) => qtask.task \in qtask.alive

====
